---- MODULE Spec2Model ----
(***************************************************************************)
(* Model of the fluent validator builder, the rule-chain evaluator and the *)
(* Command layer of model-validator-ts (src/src/quickstart.ts, lines 100   *)
(* to 618: ErrorBag, validate, Command, FluentValidatorBuilder).           *)
(*                                                                         *)
(* One builder instance created by buildValidator() is followed, together  *)
(* with every Command built from it and a bounded number of validate / run *)
(* / runShape calls.  A call is a JavaScript async function: it runs       *)
(* without interruption between two awaits, and anything else (builder     *)
(* operations, other calls) may run while it is suspended at an await.     *)
(* Each action below is one such uninterrupted stretch of code.            *)
(***************************************************************************)
EXTENDS Integers, Sequences, FiniteSets, TLC

VARIABLES state, commands, calls, returned, errorBag, history, views,
          validatorModel, fluentBuilder

\* An ErrorBag used on its own: the object, the calls of addError and
\* addGlobalError made on it so far, and what its read-only methods returned
\* since the last of those calls.
bagVars == <<errorBag, history, views>>

\* The two other variants of the library the repository holds: a
\* ValidatorModel with attribute-keyed rules and the validate call made on
\* it, and a chain of persistent FluentValidatorBuilder objects.
variantVars == <<validatorModel, fluentBuilder>>

vars ==
  <<state, commands, calls, returned, errorBag, history, views,
    validatorModel, fluentBuilder>>

\* ------------------------------------------------------------------------
\* Bounds
\* ------------------------------------------------------------------------
MaxRules == 2

\* Calls of addError / addGlobalError made on the ErrorBag used on its own.
MaxOps == 3

\* Calls a caller makes one after the other, before the one followed.
MaxEarlier == 1

MaxChain == 3

\* ------------------------------------------------------------------------
\* Values
\* ------------------------------------------------------------------------
\* JavaScript `undefined` for string-valued slots.
Undefined == "undefined"

\* Optional values of structured type: None is `undefined`, Some(x) is x.
None == <<>>
Some(x) == <<x>>

\* Dependency objects a caller may pass to provide().
DepsValues == {"depsA", "depsB"}
\* The literal `{}` that validate substitutes for missing deps.
EmptyDeps == "{}"

\* Schemas a caller may attach with input().
Schemas == {"userSchema"}

\* Raw inputs handed to validate / run / runShape.
Inputs ==
  {[name |-> "John"], [name |-> "ab"], [name |-> ""], [name |-> "#"],
   [name |-> "?"]}

\* The input null.  It has no property; it is written as a record so that it
\* can be told from the objects.
NullInput == [name |-> "null"]

\* typeof input === "object" && input !== null
IsObject(input) == input # NullInput

\* The options handed to validate / run / runShape: none, or an override.
NoOpts == [override |-> None]

ValidationOpts ==
  {NoOpts,
   [override |-> Some([name |-> "John"])],
   [override |-> Some([name |-> "ab"])]}

\* Object.assign(target, source): the target with the keys of the source
\* written onto it.
ObjectAssign(target, source) ==
  [key \in DOMAIN target \cup DOMAIN source |->
     IF key \in DOMAIN source THEN source[key] ELSE target[key]]

\* Names the attached schema accepts (z.string().min(3) in the tests).
ValidNames == {"John"}

\* Execute functions a caller may pass to command().
ExecuteFns == {"execute"}

\* The rule definitions the caller passes to rule(), in the order it attaches
\* them: fn identifies the function, id and description are optional.
RuleDefs ==
  << [fn |-> "f1", id |-> "rule-1", description |-> "first rule"],
     [fn |-> "f2", id |-> Undefined, description |-> Undefined],
     [fn |-> "f3", id |-> "rule-3", description |-> Undefined],
     [fn |-> "f4", id |-> Undefined, description |-> "fourth rule"] >>

\* ------------------------------------------------------------------------
\* ErrorBag
\* ------------------------------------------------------------------------
NewErrorBag == [issues |-> <<>>, global |-> Undefined]

\* Variant: a global message already recorded is kept.
addGlobalErrorKeepsFirst(bag, message) ==
  IF bag.global = Undefined THEN [bag EXCEPT !.global = message] ELSE bag

addGlobalError(bag, message) == [bag EXCEPT !.global = message]

\* Variant: an error recorded under the key "global" also fills the global
\* slot.
addErrorGlobalKeyFillsSlot(bag, key, message) ==
  [bag EXCEPT !.issues = Append(@, [key |-> key, message |-> message]),
              !.global = IF key = "global" THEN message ELSE @]

addError(bag, key, message) ==
  [bag EXCEPT !.issues = Append(@, [key |-> key, message |-> message])]

\* Variant: the keyed issues are not looked at.
hasErrorsGlobalOnly(bag) == bag.global # Undefined

\* Variant: the global slot is not looked at.
hasErrorsIssuesOnly(bag) == Len(bag.issues) > 0

hasErrors(bag) == Len(bag.issues) > 0 \/ bag.global # Undefined

\* Variant: the last matching issue is returned.
firstErrorLatest(bag, key) ==
  IF \E i \in 1..Len(bag.issues) : bag.issues[i].key = key
  THEN bag.issues[CHOOSE i \in 1..Len(bag.issues) :
                     /\ bag.issues[i].key = key
                     /\ \A j \in (i + 1)..Len(bag.issues) :
                          bag.issues[j].key # key].message
  ELSE Undefined

firstError(bag, key) ==
  IF \E i \in 1..Len(bag.issues) : bag.issues[i].key = key
  THEN bag.issues[CHOOSE i \in 1..Len(bag.issues) :
                     /\ bag.issues[i].key = key
                     /\ \A j \in 1..(i - 1) : bag.issues[j].key # key].message
  ELSE Undefined

\* The keys of the object the loops of toObject and toFlattenObject build.
KeysOf(bag) == {bag.issues[i].key : i \in 1..Len(bag.issues)}

\* The array the loop of toObject builds under `key`: the messages of the
\* issues with that key, in the order of #issues.
MessagesOf(bag, key) ==
  LET own == SelectSeq(bag.issues, LAMBDA issue : issue.key = key)
  IN [i \in 1..Len(own) |-> own[i].message]

\* toObject(): { global, issues }.
toObject(bag) ==
  [global |-> bag.global,
   issues |-> [key \in KeysOf(bag) |-> MessagesOf(bag, key)]]

\* The ErrorBag of src/src/login.example.ts keeps keyed issues only; its
\* methods read bag.issues.
\* hasErrors() of that class.
hasErrorsOfIssues(bag) == Len(bag.issues) > 0

\* toFlattenObject(): `result[issue.key] = issue.message` for every issue in
\* order, so a later issue overwrites an earlier one of the same key.
toFlattenObject(bag) ==
  [key \in KeysOf(bag) |->
     bag.issues[CHOOSE i \in 1..Len(bag.issues) :
                  /\ bag.issues[i].key = key
                  /\ \A j \in (i + 1)..Len(bag.issues) :
                       bag.issues[j].key # key].message]

\* array.join(separator)
RECURSIVE JoinWith(_, _)
JoinWith(strings, separator) ==
  IF Len(strings) = 0 THEN ""
  ELSE IF Len(strings) = 1 THEN strings[1]
  ELSE strings[1] \o separator \o JoinWith(Tail(strings), separator)

\* The <li> elements toHtml appends for issues[1..n].
RECURSIVE HtmlItems(_, _)
HtmlItems(issues, n) ==
  IF n = 0 THEN ""
  ELSE HtmlItems(issues, n - 1)
       \o "<li>" \o issues[n].key \o ": " \o issues[n].message \o "</li>"

\* toHtml()
toHtml(bag) ==
  IF ~hasErrorsOfIssues(bag) THEN ""
  ELSE "<ul>" \o HtmlItems(bag.issues, Len(bag.issues)) \o "</ul>"

\* The lines toText has pushed after issues[1..n]: the key whenever it is
\* not the key of the issue before, then "- message".
RECURSIVE TextLines(_, _)
TextLines(issues, n) ==
  IF n = 0 THEN <<>>
  ELSE TextLines(issues, n - 1)
       \o (IF n = 1 \/ issues[n - 1].key # issues[n].key
           THEN <<issues[n].key>> ELSE <<>>)
       \o <<"- " \o issues[n].message>>

\* toText()
toText(bag) ==
  IF ~hasErrorsOfIssues(bag) THEN ""
  ELSE JoinWith(TextLines(bag.issues, Len(bag.issues)), "\n")

\* ------------------------------------------------------------------------
\* Schema adapter (external collaborator, schema["~standard"].validate)
\* ------------------------------------------------------------------------
\* A segment of an array path is a property key or, as the adapters built on
\* Standard Schema may report it, an object { key } holding the property key.
PropertyKey(key) == [type |-> "string", key |-> key]

PathSegment(key) == [type |-> "object", key |-> key]

\* An issue as the adapter reports it.  path is an array of segments, a
\* string, or missing; message is a string or some other value.
Issue(pathType, segments, pathText, messageType, messageText) ==
  [path    |-> [type |-> pathType, segments |-> segments, text |-> pathText],
   message |-> [type |-> messageType, text |-> messageText]]

\* The issues the adapter reports for a name it rejects.  What an issue
\* looks like is the adapter's business: a short name gets an issue whose
\* array path holds property keys, and two whose array paths hold { key }
\* objects; an empty name gets an issue with a string path followed by
\* one without path; a name that is not text gets an issue whose message is
\* not a string, followed by a well-formed one; and for "?" the adapter
\* returns an issues array with nothing in it.  The input null gets one
\* issue with an empty array path.
IssuesFor(name) ==
  CASE name = "?" -> <<>>
    [] name = "null" ->
         << Issue("array", <<>>, Undefined, "string", "expected object") >>
    [] name = "" ->
         << Issue("string", <<>>, "name", "string", "required"),
            Issue("undefined", <<>>, Undefined, "string", "invalid user") >>
    [] name = "#" ->
         << Issue("array", <<PropertyKey("name")>>, Undefined,
                  "object", Undefined),
            Issue("array", <<PropertyKey("name")>>, Undefined,
                  "string", "not text") >>
    [] OTHER ->
         << Issue("array", <<PropertyKey("user"), PropertyKey("name")>>,
                  Undefined, "string", "too short"),
            Issue("array", <<PathSegment("user"), PathSegment("name")>>,
                  Undefined, "string", "not capitalised"),
            Issue("array", <<PathSegment("user"), PathSegment("role")>>,
                  Undefined, "string", "required") >>

\* The adapter returns { value } or { issues }.  The attached schema checks
\* the name and fills in a default role, so its output value is not the raw
\* input object.
SchemaValidate(schema, input) ==
  IF input.name \in ValidNames
  THEN [issues |-> None,
        value  |-> Some([name |-> input.name, role |-> "user"])]
  ELSE [issues |-> Some(IssuesFor(input.name)), value |-> None]

\* The string Array.prototype.join makes of an element: a string as it is,
\* an object through Object.prototype.toString.
String(segment) ==
  IF segment.type = "string" THEN segment.key ELSE "[object Object]"

\* issue.path.join(".")
RECURSIVE Join(_)
Join(segments) ==
  IF Len(segments) = 0 THEN ""
  ELSE IF Len(segments) = 1 THEN String(segments[1])
  ELSE String(segments[1]) \o "." \o Join(Tail(segments))

\* Variant: an issue without usable path is let through.
IssueConformsAnyPath(issue) == issue.message.type = "string"

\* An issue the loop at lines 196-213 accepts.
IssueConforms(issue) ==
  /\ issue.message.type = "string"
  /\ issue.path.type \in {"array", "string"}

IssuePath(issue) ==
  IF issue.path.type = "array" THEN Join(issue.path.segments)
  ELSE issue.path.text

\* The bag after the loop over presult.issues has added issues[1..n].
RECURSIVE IssuesToBag(_, _)
IssuesToBag(issues, n) ==
  IF n = 0 THEN NewErrorBag
  ELSE addError(IssuesToBag(issues, n - 1),
                IssuePath(issues[n]), issues[n].message.text)

\* ------------------------------------------------------------------------
\* Rule and execute functions (supplied by the caller)
\* ------------------------------------------------------------------------
\* What a function does to the bag it was given before it settles.
AddsNothing == <<>>

AddsKeyedError ==
  << [op |-> "addError", key |-> "name", message |-> "taken"] >>

AddsGlobalError ==
  << [op |-> "addGlobalError", key |-> Undefined, message |-> "rejected"] >>

RECURSIVE ApplyBagOps(_, _)
ApplyBagOps(bag, ops) ==
  IF Len(ops) = 0 THEN bag
  ELSE ApplyBagOps(IF ops[1].op = "addError"
                   THEN addError(bag, ops[1].key, ops[1].message)
                   ELSE addGlobalError(bag, ops[1].message),
                   Tail(ops))

\* Values a rule function may resolve to: undefined, an object with a
\* `context` property holding an object, and an object whose `context`
\* property is null.
RetUndefined ==
  [type |-> "undefined", hasContext |-> FALSE, contextType |-> Undefined,
   context |-> <<>>, own |-> <<>>]

RetContext(ctx) ==
  [type |-> "object", hasContext |-> TRUE, contextType |-> "object",
   context |-> ctx, own |-> <<>>]

RetNullContext(own) ==
  [type |-> "object", hasContext |-> TRUE, contextType |-> "null",
   context |-> <<>>, own |-> own]

RuleReturns ==
  { RetUndefined,
    RetContext("a" :> 1),
    RetContext("a" :> 2 @@ "b" :> 1),
    RetNullContext("c" :> 1) }

\* How one invocation of a rule function settles: it returns without touching
\* the bag, it adds an error (and may still return a context increment), or
\* it throws.
RuleOutcomes ==
  [throws : {FALSE}, ops : {AddsNothing}, returns : RuleReturns]
  \cup { [throws |-> FALSE, ops |-> AddsKeyedError,
          returns |-> RetUndefined],
         [throws |-> FALSE, ops |-> AddsGlobalError,
          returns |-> RetContext("a" :> 1)],
         [throws |-> TRUE, ops |-> AddsNothing, returns |-> RetUndefined] }

\* Values execute may resolve to: a plain result, nothing, a new ErrorBag
\* (empty or not), or the very bag it was handed.
ExecuteReturns ==
  { [type |-> "value", bag |-> NewErrorBag],
    [type |-> "undefined", bag |-> NewErrorBag],
    [type |-> "ErrorBag", bag |-> NewErrorBag],
    [type |-> "ErrorBag", bag |-> addError(NewErrorBag, "name", "conflict")],
    [type |-> "argsBag", bag |-> NewErrorBag] }

\* How the invocation of execute settles: as for a rule.
ExecuteOutcomes ==
  [throws : {FALSE}, ops : {AddsNothing}, returns : ExecuteReturns]
  \cup { [throws |-> FALSE, ops |-> AddsGlobalError,
          returns |-> [type |-> "undefined", bag |-> NewErrorBag]],
         [throws |-> FALSE, ops |-> AddsKeyedError,
          returns |-> [type |-> "argsBag", bag |-> NewErrorBag]],
         [throws |-> TRUE, ops |-> AddsNothing,
          returns |-> [type |-> "undefined", bag |-> NewErrorBag]] }

\* ------------------------------------------------------------------------
\* FluentValidatorBuilder state
\* ------------------------------------------------------------------------
\* The state object a new builder starts with (constructor, lines 466-473).
InitialState ==
  [schema |-> Undefined, deps |-> Undefined, contextRules |-> <<>>,
   depsStatus |-> "not-required"]

\* Variant: the method makes a builder of its own for the updated state.
setStateReturnCopy(this) == "copy"

\* #setState ends with `return this`: the reference the builder method
\* hands back to its caller.
setStateReturn(this) == this

\* Object.assign(this.#state, updates): the same state object, with the
\* updated fields overwritten.
setState(s, updates) ==
  [f \in DOMAIN s |-> IF f \in DOMAIN updates THEN updates[f] ELSE s[f]]

\* Variant: { ...increment, ...context }, earlier keys win.
MergeEarlierWins(context, increment) ==
  [k \in DOMAIN context \cup DOMAIN increment |->
     IF k \in DOMAIN context THEN context[k] ELSE increment[k]]

\* { ...context, ...increment }
Merge(context, increment) ==
  [k \in DOMAIN context \cup DOMAIN increment |->
     IF k \in DOMAIN increment THEN increment[k] ELSE context[k]]

\* ------------------------------------------------------------------------
\* Results
\* ------------------------------------------------------------------------
\* Variant: the Success also carries an (empty) bag of errors.
ValidationSuccessWithErrors(value, context) ==
  [success |-> TRUE, value |-> value, context |-> Some(context),
   errors |-> Some(NewErrorBag), rule |-> None]

\* Result of validate: { success: true, context, value } or
\* { success: false, errors, rule }.  A property the object does not have, or
\* that is undefined, is None.
ValidationSuccess(value, context) ==
  [success |-> TRUE, value |-> value, context |-> Some(context),
   errors |-> None, rule |-> None]

ValidationFailure(bag, rule) ==
  [success |-> FALSE, value |-> None, context |-> None,
   errors |-> Some(bag), rule |-> rule]

\* Variant: the context of the validation is not copied.
CommandSuccessWithoutContext(result, context) ==
  [success |-> TRUE, result |-> Some(result), context |-> Some(<<>>),
   errors |-> None, step |-> Undefined, rule |-> None]

\* Result of Command.run.
CommandSuccess(result, context) ==
  [success |-> TRUE, result |-> Some(result), context |-> context,
   errors |-> None, step |-> Undefined, rule |-> None]

CommandFailure(bag, step, rule) ==
  [success |-> FALSE, result |-> None, context |-> None,
   errors |-> Some(bag), step |-> step, rule |-> rule]

\* ------------------------------------------------------------------------
\* Calls
\* ------------------------------------------------------------------------
\* A call of validate, run or runShape.  pc is where the call stands:
\*   idle       not made yet
\*   schema     suspended at `await presult` (line 190)
\*   rule       suspended at `await rule.fn(...)` (line 225), rule number i
\*   validated  validate has returned, run suspended at its await (line 379)
\*   execute    suspended at `await this.#execute(...)` (line 393)
\*   done       returned a result
\*   thrown     raised an error
\* rules, deps, bag and context are the locals of validate; invoked, settled
\* and executed record what the caller's functions were called with and how
\* they settled.  id tells the calls apart; earlier is what the calls the
\* same caller made before this one ended with.  opts is the options argument
\* of the call, given the input argument as the caller passed it, object the
\* contents of the caller's input object as they are now, and input the
\* contents of args.input as validate passes it on.
IdleCall ==
  [id |-> 0, pc |-> "idle", op |-> Undefined, cmd |-> None, input |-> None,
   opts |-> NoOpts, given |-> None, object |-> None,
   rules |-> <<>>, deps |-> Undefined, presult |-> None,
   bag |-> NewErrorBag, context |-> <<>>, i |-> 0,
   validation |-> None, executionBag |-> NewErrorBag, result |-> None,
   error |-> Undefined, thrownSync |-> FALSE,
   adapterCalls |-> 0, invoked |-> <<>>, settled |-> <<>>,
   executed |-> <<>>, executeSettled |-> <<>>, earlier |-> <<>>]

\* The calls followed.
CallIds == DOMAIN calls

\* No call of the given ones has been made.
NoCalls(ids) == [c \in ids |-> [IdleCall EXCEPT !.id = c]]

\* Variant: one bag per site, kept outside the call and used by every call.
NewBagRefModuleLevel(call, site) == [call |-> 1, site |-> site]

\* Variant: run hands execute the bag validate made for the same call.
NewBagRefOnePerCall(call, site) == [call |-> call.id, site |-> "validate"]

\* `new ErrorBag()` makes an object of its own each time it is evaluated:
\* one in validate (line 193) and one in run (line 391) for every call.  A
\* bag is named by the call and the function that made it.
NewBagRef(call, site) == [call |-> call.id, site |-> site]

\* The contents of the bag object `ref` names: the bag made in validate is
\* held in the bag field of its call, the one made in run in executionBag.
BagAt(ref) ==
  IF ref.site = "validate"
  THEN calls[ref.call].bag
  ELSE calls[ref.call].executionBag

\* cs with the contents of the bag object `ref` names replaced.
PutBag(cs, ref, contents) ==
  [cs EXCEPT ![ref.call] = IF ref.site = "validate"
                           THEN [@ EXCEPT !.bag = contents]
                           ELSE [@ EXCEPT !.executionBag = contents]]

\* Call c as it resumes: its locals bag and executionBag are references, so
\* it sees the objects' contents as they are now.
Resumed(c) ==
  [calls[c] EXCEPT !.bag = BagAt(NewBagRef(calls[c], "validate")),
                   !.executionBag = BagAt(NewBagRef(calls[c], "run"))]

\* The calls after call c has run up to its next await and become `after`:
\* what it did to the bag made in `site` is done to that object.
Suspended(c, after, site) ==
  PutBag([calls EXCEPT ![c] = [after EXCEPT
                                 !.bag = calls[c].bag,
                                 !.executionBag = calls[c].executionBag]],
         NewBagRef(calls[c], site),
         IF site = "validate" THEN after.bag ELSE after.executionBag)

\* Variant: the error is kept but the call finishes as if it had returned.
ThrowSwallowed(call, message, sync) ==
  [call EXCEPT !.pc = "done", !.error = message, !.thrownSync = sync]

\* invariant(condition, message) failing inside a non-async function throws
\* to the caller; inside an async function it rejects the returned promise.
Throw(call, message, sync) ==
  [call EXCEPT !.pc = "thrown", !.error = message, !.thrownSync = sync]

\* validate returns: a validate call is finished, a run call continues after
\* its `await this.#validatorBuilder.validate(...)`.
ReturnValidation(call, validation) ==
  [call EXCEPT !.validation = Some(validation),
               !.pc = IF call.op = "validate" THEN "done" ELSE "validated"]

\* Variant: the array is walked from its end.
InvokeRuleFromEnd(call, n, context) ==
  [call EXCEPT !.pc = "rule", !.i = n, !.context = context,
               !.invoked = Append(@, [rule    |-> call.rules[Len(call.rules)
                                                             + 1 - n],
                                      data    |-> call.input,
                                      deps    |-> call.deps,
                                      context |-> context,
                                      bag     |-> call.bag,
                                      bagRef  |-> NewBagRef(call,
                                                            "validate")])]

\* One iteration of `for (const rule of args.rules)` up to its await: rule
\* number n is invoked with the input, the bag, the deps and the context.
InvokeRule(call, n, context) ==
  [call EXCEPT !.pc = "rule", !.i = n, !.context = context,
               !.invoked = Append(@, [rule    |-> call.rules[n],
                                      data    |-> call.input,
                                      deps    |-> call.deps,
                                      context |-> context,
                                      bag     |-> call.bag,
                                      bagRef  |-> NewBagRef(call,
                                                            "validate")])]

\* Variant: the first rule of a call is handed the context the caller's
\* previous call ended with.
ContinueRulesFromEarlier(call, n, context) ==
  IF n <= Len(call.rules)
  THEN InvokeRule(call, n,
                  IF n = 1 /\ call.earlier # <<>>
                  THEN call.earlier[Len(call.earlier)].context
                  ELSE context)
  ELSE ReturnValidation([call EXCEPT !.context = context],
                        ValidationSuccess(call.presult[1].value, context))

\* The loop is at rule number n: invoke it, or return Success after the last.
ContinueRules(call, n, context) ==
  IF n <= Len(call.rules)
  THEN InvokeRule(call, n, context)
  ELSE ReturnValidation([call EXCEPT !.context = context],
                        ValidationSuccess(call.presult[1].value, context))

\* Variant: the other properties of the returned object are merged too.
NextContextWholeObject(context, result) ==
  IF result.type = "object"
  THEN Merge(Merge(context, result.own), result.context)
  ELSE context

\* The context after a rule has returned `result` (lines 240-250).
NextContext(context, result) ==
  IF /\ result.type = "object"
     /\ result.hasContext
     /\ result.contextType = "object"
  THEN Merge(context, result.context)
  ELSE context

\* Variant: the override is merged into a copy, { ...input, ...override },
\* and the caller's object is left as it is.
StartValidateOnCopy(call, s, input) ==
  LET override == call.opts.override
      assigned == IF override # None /\ IsObject(input)
                  THEN ObjectAssign(input, override[1])
                  ELSE input
  IN [call EXCEPT !.pc = "schema",
                  !.object = Some(input),
                  !.input = Some(assigned),
                  !.rules = s.contextRules,
                  !.deps = IF s.deps = Undefined THEN EmptyDeps ELSE s.deps,
                  !.presult = Some(SchemaValidate(s.schema, assigned)),
                  !.adapterCalls = @ + 1]

\* validate(args) of lines 162-258, from its call to its first await: the
\* override is written onto the input and the schema adapter is invoked on
\* the input.
StartValidate(call, s, input) ==
  LET override == call.opts.override
      assigned == IF override # None /\ IsObject(input)
                  THEN ObjectAssign(input, override[1])
                  ELSE input
  IN [call EXCEPT !.pc = "schema",
                  !.object = Some(assigned),
                  !.input = Some(assigned),
                  !.rules = s.contextRules,
                  !.deps = IF s.deps = Undefined THEN EmptyDeps ELSE s.deps,
                  !.presult = Some(SchemaValidate(s.schema, assigned)),
                  !.adapterCalls = @ + 1]

\* Variant: the schema is not checked before the adapter is called.
BuilderValidateWithoutSchemaCheck(call, s, input) ==
  IF s.depsStatus = "required"
  THEN Throw(call, "Deps should be provided before calling validate", TRUE)
  ELSE StartValidate(call, s, input)

\* FluentValidatorBuilder.validate (lines 526-546).
BuilderValidate(call, s, input) ==
  IF s.depsStatus = "required"
  THEN Throw(call, "Deps should be provided before calling validate", TRUE)
  ELSE IF s.schema = Undefined
  THEN Throw(call, "Schema must be defined before calling validate", TRUE)
  ELSE StartValidate(call, s, input)

\* Variant: the two preconditions are checked in the other order.
CommandRunSchemaFirst(call, s, input) ==
  IF s.schema = Undefined
  THEN Throw(call, "Schema must be defined before calling command", FALSE)
  ELSE IF s.depsStatus = "required"
  THEN Throw(call, "Deps should be provided before calling run", FALSE)
  ELSE [BuilderValidate(call, s, input) EXCEPT !.thrownSync = FALSE]

\* Command.run (lines 364-379), up to its await of validate.  An error thrown
\* by the builder's validate rejects run's promise like any other.
CommandRun(call, s, input) ==
  IF s.depsStatus = "required"
  THEN Throw(call, "Deps should be provided before calling run", FALSE)
  ELSE IF s.schema = Undefined
  THEN Throw(call, "Schema must be defined before calling command", FALSE)
  ELSE [BuilderValidate(call, s, input) EXCEPT !.thrownSync = FALSE]

\* Variant: runShape goes to the builder's validate without passing by run.
CommandRunShapeSkipsRun(call, s, input) ==
  IF s.depsStatus = "required"
  THEN Throw(call, "Deps should be provided before calling runShape", TRUE)
  ELSE BuilderValidate(call, s, input)

\* Command.runShape (lines 434-446).
CommandRunShape(call, s, input) ==
  IF s.depsStatus = "required"
  THEN Throw(call, "Deps should be provided before calling runShape", TRUE)
  ELSE CommandRun(call, s, input)

\* Variant: the issues are recorded but the early return is missing.
ShapeFailureFallsThrough(call, issues) ==
  ContinueRules([call EXCEPT !.bag = IssuesToBag(issues, Len(issues))],
                1, <<>>)

\* The schema adapter reported issues (lines 195-220): they are added to the
\* bag and validate returns a Failure without rule attribution.
ShapeFailure(call, issues) ==
  ReturnValidation([call EXCEPT !.bag = IssuesToBag(issues, Len(issues))],
                   ValidationFailure(IssuesToBag(issues, Len(issues)), None))

\* validate after `await presult` (lines 193-231): issues become a Failure,
\* otherwise the rule loop starts.
AfterSchema(call) ==
  LET presult == call.presult[1] IN
  IF presult.issues # None
  THEN LET issues == presult.issues[1]
           bad == {n \in 1..Len(issues) : ~IssueConforms(issues[n])}
       IN IF bad # {}
          THEN LET n == CHOOSE m \in bad : \A k \in bad : m <= k
               IN Throw(call,
                        IF issues[n].message.type # "string"
                        THEN "Unexpected error format, expected string"
                        ELSE "Unsupported issue path type",
                        FALSE)
          ELSE ShapeFailure(call, issues)
  ELSE ContinueRules([call EXCEPT !.bag = NewErrorBag], 1, <<>>)

\* Variant: a rule that raises at its first invocation is invoked once more.
AfterRuleRetriesOnce(call, outcome) ==
  LET rule == call.rules[call.i]
      bag == ApplyBagOps(call.bag, outcome.ops)
      seen == [call EXCEPT !.bag = bag, !.settled = Append(@, outcome)]
  IN IF outcome.throws /\ Len(call.invoked) = call.i
     THEN InvokeRule(seen, call.i, call.context)
     ELSE IF outcome.throws
     THEN Throw(seen, "raised by rule", FALSE)
     ELSE IF hasErrors(bag)
     THEN ReturnValidation(
            seen,
            ValidationFailure(bag, Some([id |-> rule.id,
                                         description |-> rule.description])))
     ELSE ContinueRules(seen, call.i + 1,
                        NextContext(call.context, outcome.returns))

\* validate after `await rule.fn(...)` has settled (lines 225-251).
AfterRule(call, outcome) ==
  LET rule == call.rules[call.i]
      bag == ApplyBagOps(call.bag, outcome.ops)
      seen == [call EXCEPT !.bag = bag, !.settled = Append(@, outcome)]
  IN IF outcome.throws
     THEN Throw(seen, "raised by rule", FALSE)
     ELSE IF hasErrors(bag)
     THEN ReturnValidation(
            seen,
            ValidationFailure(bag, Some([id |-> rule.id,
                                         description |-> rule.description])))
     ELSE ContinueRules(seen, call.i + 1,
                        NextContext(call.context, outcome.returns))

\* Variant: the rule attribution is not copied.
FailedValidationWithoutRule(validation) ==
  CommandFailure(validation.errors[1], "validation", None)

\* Variant: the failure is reported under the wrong step.
FailedValidationAsExecution(validation) ==
  CommandFailure(validation.errors[1], "execution", validation.rule)

\* The result run returns when validation failed (lines 382-387).
FailedValidation(validation) ==
  CommandFailure(validation.errors[1], "validation", validation.rule)

\* Command.run after `await validate` (lines 381-398): s is the builder's
\* state object as it is now (internals is a reference to it).
AfterValidate(call, s) ==
  LET validation == call.validation[1] IN
  IF ~validation.success
  THEN [call EXCEPT !.pc = "done",
                    !.result = Some(FailedValidation(validation))]
  ELSE [call EXCEPT !.pc = "execute",
                    !.executionBag = NewErrorBag,
                    !.executed = Append(@, [data    |-> validation.value,
                                            deps    |-> s.deps,
                                            context |-> validation.context,
                                            bag     |-> NewErrorBag,
                                            bagRef  |-> NewBagRef(call,
                                                                  "run")])]

\* Command.run after `await this.#execute(...)` has settled (lines 400-424).
AfterExecute(call, outcome) ==
  LET executionBag == ApplyBagOps(call.executionBag, outcome.ops)
      seen == [call EXCEPT !.executionBag = executionBag,
                           !.executeSettled = Append(@, outcome)]
      executeResult == outcome.returns
  IN IF outcome.throws
     THEN Throw(seen, "raised by execute", FALSE)
     ELSE IF hasErrors(executionBag)
     THEN [seen EXCEPT !.pc = "done",
                       !.result = Some(CommandFailure(executionBag,
                                                      "execution", None))]
     ELSE IF executeResult.type \in {"ErrorBag", "argsBag"}
     THEN [seen EXCEPT !.pc = "done",
                       !.result = Some(CommandFailure(
                                    IF executeResult.type = "argsBag"
                                    THEN executionBag ELSE executeResult.bag,
                                    "execution", None))]
     ELSE [seen EXCEPT !.pc = "done",
                       !.result = Some(CommandSuccess(
                                    executeResult,
                                    call.validation[1].context))]

\* ------------------------------------------------------------------------
\* Initial state
\* ------------------------------------------------------------------------
\* The read-only methods of an ErrorBag that are followed.
ViewNames ==
  {"hasErrors", "firstError", "toObject", "toFlattenObject", "toHtml",
   "toText"}

\* None of them has been called.
NoViews == [v \in ViewNames |-> None]

\* A rule function of a ValidatorModel: how it is declared (the name of its
\* constructor), whether it returns a promise that is still pending, whether
\* it adds an error before it returns, and whether it adds one when its
\* asynchronous work is over.
RuleFn(declared, pending, early, late) ==
  [declared |-> declared, pending |-> pending, early |-> early, late |-> late]

\* The rule functions a caller may write: an async function that adds an
\* error after awaiting, an async function that adds none, a function that
\* returns a promise chain adding an error in the end, and two functions
\* that finish before they return.
RuleFns ==
  {RuleFn("AsyncFunction", TRUE, FALSE, TRUE),
   RuleFn("AsyncFunction", TRUE, FALSE, FALSE),
   RuleFn("Function", TRUE, FALSE, TRUE),
   RuleFn("Function", FALSE, TRUE, FALSE),
   RuleFn("Function", FALSE, FALSE, FALSE)}

\* new ValidatorModel(schema, rules, deps) and no validate call made: rules
\* are the rule definitions, errors the contents of this.errors, unawaited
\* the rules whose promise validate did not await and is still pending,
\* and unfinished the rules whose promise was pending when validate decided.
NewValidatorModel ==
  [pc |-> "idle", rules |-> <<>>, input |-> None, presult |-> None,
   errors |-> NewErrorBag, i |-> 0, unawaited |-> {}, unfinished |-> {},
   result |-> None, error |-> Undefined]

\* new FluentValidatorBuilder() of the persistent variant, and the chain
\* with nothing called yet: this is the builder the caller holds, from the
\* builder the last method was called on, chain the methods called so far
\* and call what the last validate call did.
NewFluentValidatorBuilder ==
  [schema |-> Undefined, deps |-> Undefined, contextRules |-> <<>>,
   depsStatus |-> "not-required"]

NewChain ==
  [this |-> NewFluentValidatorBuilder, from |-> None, chain |-> <<>>,
   call |-> None]

VariantInit ==
  /\ validatorModel = NewValidatorModel
  /\ fluentBuilder = NewChain

\* new ErrorBag(): nothing recorded, nothing read.
BagInit ==
  /\ errorBag = NewErrorBag
  /\ history = <<>>
  /\ views = NoViews

\* buildValidator() has returned a new builder; no command exists and no
\* call has been made.
Init ==
  /\ state = InitialState
  /\ commands = {}
  /\ calls = NoCalls({1})
  /\ returned = {}
  /\ BagInit
  /\ VariantInit

\* ------------------------------------------------------------------------
\* Builder operations.  Each returns `this` (setState, line 486), so every
\* reference to the builder, the ones held by commands included, sees the
\* updated state object.
\* ------------------------------------------------------------------------
inputUpdates(schema) == [schema |-> schema]

dollarDepsUpdates == [depsStatus |-> "required"]

\* Variant: the earlier rules are not spread into the new array.
ruleUpdatesWithoutSpread(s, r) == [contextRules |-> <<r>>]

ruleUpdates(s, r) == [contextRules |-> Append(s.contextRules, r)]

\* Variant: the value is not stored.
provideUpdatesStatusOnly(d) == [depsStatus |-> "passed"]

\* Variant: the status is not advanced.
provideUpdatesDepsOnly(d) == [deps |-> d]

provideUpdates(d) == [deps |-> d, depsStatus |-> "passed"]

\* FluentValidatorBuilder.input
BuilderInput ==
  \E schema \in Schemas :
    /\ state' = setState(state, inputUpdates(schema))
    /\ returned' = returned \cup {setStateReturn("this")}
    /\ UNCHANGED <<commands, calls, bagVars, variantVars>>

\* FluentValidatorBuilder.$deps
BuilderDollarDeps ==
  /\ state' = setState(state, dollarDepsUpdates)
  /\ returned' = returned \cup {setStateReturn("this")}
  /\ UNCHANGED <<commands, calls, bagVars, variantVars>>

\* FluentValidatorBuilder.rule
BuilderRule ==
  /\ Len(state.contextRules) < MaxRules
  /\ state' = setState(state,
                       ruleUpdates(state,
                                   RuleDefs[Len(state.contextRules) + 1]))
  /\ returned' = returned \cup {setStateReturn("this")}
  /\ UNCHANGED <<commands, calls, bagVars, variantVars>>

\* FluentValidatorBuilder.provide
BuilderProvide ==
  \E d \in DepsValues :
    /\ state' = setState(state, provideUpdates(d))
    /\ returned' = returned \cup {setStateReturn("this")}
    /\ UNCHANGED <<commands, calls, bagVars, variantVars>>

\* A Command object: the builder it wraps and its execute function.
\* provided records the argument of the Command.provide call that created
\* it (undefined for a command made by command()).
NewCommand(validatorBuilder, execute, provided) ==
  [validatorBuilder |-> validatorBuilder, execute |-> execute,
   provided |-> provided]

\* FluentValidatorBuilder.command.  commands is the set of Command objects
\* made so far; two commands with the same builder, execute function and
\* provided dependencies behave alike and are kept as one.
BuilderCommand ==
  \E e \in ExecuteFns :
    /\ commands' = commands \cup {NewCommand("this", e, Undefined)}
    /\ UNCHANGED <<state, calls, returned, bagVars, variantVars>>

\* Command.provide: provide on the wrapped builder, then a new Command
\* around the builder that call returned.
CommandProvide ==
  \E k \in commands, d \in DepsValues :
    /\ state' = setState(state, provideUpdates(d))
    /\ returned' = returned \cup {setStateReturn(k.validatorBuilder)}
    /\ commands' = commands \cup {NewCommand(
                                   setStateReturn(k.validatorBuilder),
                                   k.execute, d)}
    /\ UNCHANGED <<calls, bagVars, variantVars>>

\* ------------------------------------------------------------------------
\* Calls
\* ------------------------------------------------------------------------
\* Call c as the caller makes it: the method, the command it is made on,
\* and the arguments.
Called(c, op, cmd, in, opts) ==
  [calls[c] EXCEPT !.op = op, !.cmd = cmd, !.opts = opts,
                   !.given = Some(in), !.object = Some(in)]

\* builder.validate(input, opts)
ValidateWith(inputs, options) ==
  \E c \in CallIds, in \in inputs, opts \in options :
    /\ calls[c].pc = "idle"
    /\ calls' = [calls EXCEPT
                   ![c] = BuilderValidate(Called(c, "validate", None, in, opts),
                                          state, in)]
    /\ UNCHANGED <<state, commands, returned, bagVars, variantVars>>

\* command.run(input, opts)
RunWith(inputs, options) ==
  \E c \in CallIds, k \in commands, in \in inputs, opts \in options :
    /\ calls[c].pc = "idle"
    /\ calls' = [calls EXCEPT
                   ![c] = CommandRun(Called(c, "run", Some(k), in, opts),
                                     state, in)]
    /\ UNCHANGED <<state, commands, returned, bagVars, variantVars>>

\* command.runShape(input, opts)
RunShapeWith(inputs, options) ==
  \E c \in CallIds, k \in commands, in \in inputs, opts \in options :
    /\ calls[c].pc = "idle"
    /\ calls' = [calls EXCEPT
                   ![c] = CommandRunShape(Called(c, "runShape", Some(k),
                                                 in, opts),
                                          state, in)]
    /\ UNCHANGED <<state, commands, returned, bagVars, variantVars>>

\* builder.validate(input)
Validate == ValidateWith(Inputs, {NoOpts})

\* command.run(input)
Run == RunWith(Inputs, {NoOpts})

\* command.runShape(input)
RunShape == RunShapeWith(Inputs, {NoOpts})

\* The schema adapter's result is available; validate resumes.
SchemaSettles ==
  \E c \in CallIds :
    /\ calls[c].pc = "schema"
    /\ calls' = Suspended(c, AfterSchema(Resumed(c)), "validate")
    /\ UNCHANGED <<state, commands, returned, bagVars, variantVars>>

\* The rule in flight settles; validate resumes.
RuleSettles ==
  \E c \in CallIds, outcome \in RuleOutcomes :
    /\ calls[c].pc = "rule"
    /\ calls' = Suspended(c, AfterRule(Resumed(c), outcome), "validate")
    /\ UNCHANGED <<state, commands, returned, bagVars, variantVars>>

\* validate has returned to run; run resumes.
ValidateReturns ==
  \E c \in CallIds :
    /\ calls[c].pc = "validated"
    /\ calls' = Suspended(c, AfterValidate(Resumed(c), state), "run")
    /\ UNCHANGED <<state, commands, returned, bagVars, variantVars>>

\* execute settles; run resumes.
ExecuteSettles ==
  \E c \in CallIds, outcome \in ExecuteOutcomes :
    /\ calls[c].pc = "execute"
    /\ calls' = Suspended(c, AfterExecute(Resumed(c), outcome), "run")
    /\ UNCHANGED <<state, commands, returned, bagVars, variantVars>>

Next ==
  \/ BuilderInput
  \/ BuilderDollarDeps
  \/ BuilderRule
  \/ BuilderProvide
  \/ BuilderCommand
  \/ CommandProvide
  \/ Validate
  \/ Run
  \/ RunShape
  \/ SchemaSettles
  \/ RuleSettles
  \/ ValidateReturns
  \/ ExecuteSettles

Spec == Init /\ [][Next]_vars

\* ------------------------------------------------------------------------
\* Two calls in flight on one configured validator
\* ------------------------------------------------------------------------
\* The builder after buildValidator().input(schema).rule(r1)...rule(rn).
RECURSIVE ConfiguredState(_)
ConfiguredState(n) ==
  IF n = 0
  THEN setState(InitialState, inputUpdates("userSchema"))
  ELSE setState(ConfiguredState(n - 1),
                ruleUpdates(ConfiguredState(n - 1), RuleDefs[n]))

\* The validator is configured and a command has been built from it; two
\* calls can be made, by callers that do not wait for each other.
InitConcurrent ==
  /\ state = ConfiguredState(MaxRules)
  /\ commands = {NewCommand("this", "execute", Undefined)}
  /\ calls = NoCalls({1, 2})
  /\ returned = {"this"}
  /\ BagInit
  /\ VariantInit

\* The builder is left alone; the calls start and resume in any order.
NextConcurrent ==
  \/ Validate
  \/ Run
  \/ SchemaSettles
  \/ RuleSettles
  \/ ValidateReturns
  \/ ExecuteSettles

SpecConcurrent == InitConcurrent /\ [][NextConcurrent]_vars

\* ------------------------------------------------------------------------
\* One caller calling a configured validator again and again
\* ------------------------------------------------------------------------
\* As for two callers, with a single one.
InitSequential ==
  /\ state = ConfiguredState(MaxRules)
  /\ commands = {NewCommand("this", "execute", Undefined)}
  /\ calls = NoCalls({1})
  /\ returned = {"this"}
  /\ BagInit
  /\ VariantInit

\* The caller's call has ended and the caller makes ready for another one.
\* Nothing of the ended call is left but what the caller remembers of it:
\* whether it failed, and the bag and the context it ended with.
Again ==
  \E c \in CallIds :
    /\ calls[c].pc \in {"done", "thrown"}
    /\ Len(calls[c].earlier) < MaxEarlier
    /\ calls' = [calls EXCEPT
                   ![c] = [IdleCall EXCEPT
                             !.id = c,
                             !.earlier =
                               Append(calls[c].earlier,
                                      [failed  |-> \/ calls[c].pc = "thrown"
                                                   \/ ~calls[c].validation[1]
                                                         .success,
                                       bag     |-> calls[c].bag,
                                       context |-> calls[c].context])]]
    /\ UNCHANGED <<state, commands, returned, bagVars, variantVars>>

NextSequential ==
  \/ Validate
  \/ Run
  \/ SchemaSettles
  \/ RuleSettles
  \/ ValidateReturns
  \/ ExecuteSettles
  \/ Again

SpecSequential == InitSequential /\ [][NextSequential]_vars

\* A promise the engine awaits is settled by the schema adapter, the rule or
\* execute; the specification below is the one of a single caller with
\* collaborators whose promises all settle in the end.  The continuation of
\* run after validate has returned is a job of the event loop, which runs
\* every job queued.  When the caller calls is left to the caller.
Settling ==
  /\ WF_vars(SchemaSettles)
  /\ WF_vars(RuleSettles)
  /\ WF_vars(ValidateReturns)
  /\ WF_vars(ExecuteSettles)

SpecSettling == InitSequential /\ [][NextSequential]_vars /\ Settling

\* ------------------------------------------------------------------------
\* Calls made with options on a configured validator
\* ------------------------------------------------------------------------
\* As for one caller; the dependencies can be declared and supplied.
InitOpts ==
  /\ state = ConfiguredState(MaxRules)
  /\ commands = {NewCommand("this", "execute", Undefined)}
  /\ calls = NoCalls({1})
  /\ returned = {"this"}
  /\ BagInit
  /\ VariantInit

\* builder.validate(input, opts), input null included.
ValidateOpts == ValidateWith(Inputs \cup {NullInput}, ValidationOpts)

\* command.run(input, opts)
RunOpts == RunWith(Inputs \cup {NullInput}, ValidationOpts)

\* command.runShape(input, opts)
RunShapeOpts == RunShapeWith(Inputs \cup {NullInput}, ValidationOpts)

NextOpts ==
  \/ BuilderDollarDeps
  \/ BuilderProvide
  \/ ValidateOpts
  \/ RunOpts
  \/ RunShapeOpts
  \/ SchemaSettles
  \/ RuleSettles
  \/ ValidateReturns
  \/ ExecuteSettles

SpecOpts == InitOpts /\ [][NextOpts]_vars

\* ------------------------------------------------------------------------
\* An ErrorBag used on its own
\* ------------------------------------------------------------------------
\* Keys and messages the caller records.  A key is any string, "global"
\* included.
BagKeys == {"name", "email", "global"}

BagMessages == {"required", "taken"}

\* A bag has been created; no validator is involved.
InitBag ==
  /\ state = InitialState
  /\ commands = {}
  /\ calls = NoCalls({1})
  /\ returned = {}
  /\ BagInit
  /\ VariantInit

\* bag.addError(key, message)
BagAddError ==
  \E key \in BagKeys, message \in BagMessages :
    /\ Len(history) < MaxOps
    /\ errorBag' = addError(errorBag, key, message)
    /\ history' = Append(history, [op |-> "addError", key |-> key,
                                   message |-> message])
    /\ views' = NoViews
    /\ UNCHANGED <<state, commands, calls, returned, variantVars>>

\* bag.addGlobalError(message)
BagAddGlobalError ==
  \E message \in BagMessages :
    /\ Len(history) < MaxOps
    /\ errorBag' = addGlobalError(errorBag, message)
    /\ history' = Append(history, [op |-> "addGlobalError", key |-> Undefined,
                                   message |-> message])
    /\ views' = NoViews
    /\ UNCHANGED <<state, commands, calls, returned, variantVars>>

\* Variant: the method empties the bag as it reads it.
ReadConsuming(view, result) ==
  /\ views' = [views EXCEPT ![view] = Some(result)]
  /\ errorBag' = NewErrorBag
  /\ UNCHANGED <<state, commands, calls, returned, history, variantVars>>

\* A read-only method returns `result` to the caller; none of them assigns
\* to #issues or #global.
Read(view, result) ==
  /\ views' = [views EXCEPT ![view] = Some(result)]
  /\ UNCHANGED <<state, commands, calls, returned, errorBag, history,
                 variantVars>>

\* bag.hasErrors()
CallHasErrors == Read("hasErrors", hasErrors(errorBag))

\* bag.firstError(key)
CallFirstError ==
  \E key \in BagKeys :
    Read("firstError", [key |-> key, message |-> firstError(errorBag, key)])

\* bag.toObject()
CallToObject == Read("toObject", toObject(errorBag))

\* bag.toFlattenObject()
CallToFlattenObject == Read("toFlattenObject", toFlattenObject(errorBag))

\* bag.toHtml()
CallToHtml == Read("toHtml", toHtml(errorBag))

\* bag.toText()
CallToText == Read("toText", toText(errorBag))

NextBag ==
  \/ BagAddError
  \/ BagAddGlobalError
  \/ CallHasErrors
  \/ CallFirstError
  \/ CallToObject
  \/ CallToFlattenObject
  \/ CallToHtml
  \/ CallToText

SpecBag == InitBag /\ [][NextBag]_vars

\* ------------------------------------------------------------------------
\* The ValidatorModel with attribute-keyed rules (src/website/article.md)
\* ------------------------------------------------------------------------
\* The attribute the rules are attached to and the messages they add.
RuleAttribute == "name"

\* this.errors after the part of rule n that runs before the function
\* returns.
AfterEarlyPart(m, n) ==
  IF m.rules[n].fn.early
  THEN addError(m.errors, m.rules[n].attribute, "rejected at once")
  ELSE m.errors

\* this.errors after the part of rule n that runs when its asynchronous work
\* is over.
AfterLatePart(m, n) ==
  IF m.rules[n].fn.late
  THEN addError(m.errors, m.rules[n].attribute, "rejected later")
  ELSE m.errors

\* The end of validate (lines 448-458): Failure when this.errors has errors,
\* Success otherwise.
Decide(m) ==
  [m EXCEPT !.pc = "done",
            !.unfinished = m.unawaited,
            !.result = Some([success |-> ~hasErrorsOfIssues(m.errors)])]

\* The rule loop (lines 434-446) from rule n up to its next await or its
\* end: a function whose constructor is named AsyncFunction is called and
\* awaited; any other is called and what it returns is dropped.
RECURSIVE RunRules(_, _)
RunRules(m, n) ==
  IF n > Len(m.rules) THEN Decide(m)
  ELSE LET called == [m EXCEPT !.errors = AfterEarlyPart(m, n), !.i = n]
       IN IF m.rules[n].fn.declared = "AsyncFunction"
          THEN [called EXCEPT !.pc = "rule"]
          ELSE RunRules(IF m.rules[n].fn.pending
                        THEN [called EXCEPT !.unawaited = @ \cup {n}]
                        ELSE called,
                        n + 1)

\* definition.addRule(ruledef), before build().
ModelAddRule ==
  \E fn \in RuleFns :
    /\ validatorModel.pc = "idle"
    /\ Len(validatorModel.rules) < MaxRules
    /\ validatorModel' =
         [validatorModel EXCEPT
            !.rules = Append(@, [attribute |-> RuleAttribute, fn |-> fn])]
    /\ UNCHANGED <<state, commands, calls, returned, bagVars, fluentBuilder>>

\* model.validate(input, opts) up to the await of the adapter's result
\* (lines 400-408).
ModelValidate ==
  \E in \in Inputs \cup {NullInput}, opts \in ValidationOpts :
    /\ validatorModel.pc = "idle"
    /\ LET assigned == IF opts.override # None /\ IsObject(in)
                       THEN ObjectAssign(in, opts.override[1])
                       ELSE in
       IN validatorModel' =
            [validatorModel EXCEPT
               !.pc = "schema",
               !.input = Some(assigned),
               !.presult = Some(SchemaValidate("userSchema", assigned))]
    /\ UNCHANGED <<state, commands, calls, returned, bagVars, fluentBuilder>>

\* The adapter's result is available (lines 410-446): a new bag, then the
\* issues become a Failure, or the rule loop starts.
ModelSchemaSettles ==
  /\ validatorModel.pc = "schema"
  /\ LET presult == validatorModel.presult[1]
         m == [validatorModel EXCEPT !.errors = NewErrorBag]
     IN validatorModel' =
          IF presult.issues # None
          THEN LET issues == presult.issues[1]
                   bad == {n \in 1..Len(issues) : ~IssueConforms(issues[n])}
               IN IF bad # {}
                  THEN LET n == CHOOSE k \in bad : \A l \in bad : k <= l
                       IN [m EXCEPT
                             !.pc = "thrown",
                             !.error =
                               IF issues[n].message.type # "string"
                               THEN "Unexpected error format, expected string"
                               ELSE "Unsupported issue path type"]
                  ELSE [m EXCEPT
                          !.pc = "done",
                          !.errors = IssuesToBag(issues, Len(issues)),
                          !.result = Some([success |-> FALSE])]
          ELSE RunRules(m, 1)
  /\ UNCHANGED <<state, commands, calls, returned, bagVars, fluentBuilder>>

\* The promise of the rule validate awaits is settled: the rule's work is
\* over and the loop goes on.
ModelRuleSettles ==
  /\ validatorModel.pc = "rule"
  /\ validatorModel' =
       RunRules([validatorModel EXCEPT
                   !.errors = AfterLatePart(validatorModel, validatorModel.i)],
                validatorModel.i + 1)
  /\ UNCHANGED <<state, commands, calls, returned, bagVars, fluentBuilder>>

\* The promise of a rule validate did not await is settled, while validate
\* awaits another rule or after it has returned: the rule's work is over.
ModelUnawaitedSettles ==
  \E n \in validatorModel.unawaited :
    /\ validatorModel.pc \in {"rule", "done"}
    /\ validatorModel' =
         [validatorModel EXCEPT !.errors = AfterLatePart(validatorModel, n),
                                !.unawaited = @ \ {n}]
    /\ UNCHANGED <<state, commands, calls, returned, bagVars, fluentBuilder>>

\* A validator is defined, built and validate is called on it once.
InitModel ==
  /\ state = InitialState
  /\ commands = {}
  /\ calls = NoCalls({1})
  /\ returned = {}
  /\ BagInit
  /\ VariantInit

NextModel ==
  \/ ModelAddRule
  \/ ModelValidate
  \/ ModelSchemaSettles
  \/ ModelRuleSettles
  \/ ModelUnawaitedSettles

SpecModel == InitModel /\ [][NextModel]_vars

\* ------------------------------------------------------------------------
\* The persistent FluentValidatorBuilder (src/unnamed/part_001)
\* ------------------------------------------------------------------------
\* Every method makes a new FluentValidatorBuilder and sets some of its
\* fields; the fields it does not set keep the values of a new builder.
\* input(schema) of the builder b.
PersistentInput(b, schema) ==
  [NewFluentValidatorBuilder EXCEPT !.schema = schema,
                                    !.deps = b.deps,
                                    !.contextRules = b.contextRules]

\* $deps() of the builder b.
PersistentDollarDeps(b) ==
  [NewFluentValidatorBuilder EXCEPT !.schema = b.schema,
                                    !.depsStatus = "required",
                                    !.contextRules = b.contextRules]

\* addRule(rule) of the builder b.
PersistentAddRule(b, rule) ==
  [NewFluentValidatorBuilder EXCEPT !.schema = b.schema,
                                    !.deps = b.deps,
                                    !.depsStatus = b.depsStatus,
                                    !.contextRules = Append(b.contextRules,
                                                            rule)]

\* provide(deps) of the builder b.
PersistentProvide(b, deps) ==
  [NewFluentValidatorBuilder EXCEPT !.schema = b.schema,
                                    !.deps = deps,
                                    !.depsStatus = "passed",
                                    !.contextRules = b.contextRules]

\* validate(input) of the builder b: the error it throws, or the arguments
\* it hands to validate(args).
PersistentValidate(b, input) ==
  IF b.depsStatus \notin {"passed", "not-required"}
  THEN [threw |-> "Deps must be passed or not required at validation time",
        args  |-> None]
  ELSE IF b.schema = Undefined
  THEN [threw |-> "Schema must be defined before calling validate",
        args  |-> None]
  ELSE [threw |-> Undefined,
        args  |-> Some([schema |-> b.schema, input |-> input,
                        rules  |-> b.contextRules,
                        deps   |-> IF b.deps = Undefined THEN EmptyDeps
                                   ELSE b.deps])]

\* The caller calls a method on the builder it holds and holds the builder
\* the method returns.
Chained(method, made) ==
  /\ Len(fluentBuilder.chain) < MaxChain
  /\ fluentBuilder' = [this  |-> made,
                       from  |-> Some(fluentBuilder.this),
                       chain |-> Append(fluentBuilder.chain, method),
                       call  |-> None]
  /\ UNCHANGED <<state, commands, calls, returned, bagVars, validatorModel>>

ChainInput ==
  \E schema \in Schemas :
    Chained("input", PersistentInput(fluentBuilder.this, schema))

ChainDollarDeps == Chained("$deps", PersistentDollarDeps(fluentBuilder.this))

ChainAddRule ==
  /\ Len(fluentBuilder.this.contextRules) < MaxRules
  /\ Chained("addRule",
             PersistentAddRule(
               fluentBuilder.this,
               RuleDefs[Len(fluentBuilder.this.contextRules) + 1]))

ChainProvide ==
  \E deps \in DepsValues :
    Chained("provide", PersistentProvide(fluentBuilder.this, deps))

\* The caller calls validate on the builder it holds.
ChainValidate ==
  \E in \in Inputs :
    /\ fluentBuilder' =
         [fluentBuilder EXCEPT
            !.call = Some(PersistentValidate(fluentBuilder.this, in))]
    /\ UNCHANGED <<state, commands, calls, returned, bagVars, validatorModel>>

\* A new builder and nothing called on it.
InitPersistent ==
  /\ state = InitialState
  /\ commands = {}
  /\ calls = NoCalls({1})
  /\ returned = {}
  /\ BagInit
  /\ VariantInit

NextPersistent ==
  \/ ChainInput
  \/ ChainDollarDeps
  \/ ChainAddRule
  \/ ChainProvide
  \/ ChainValidate

SpecPersistent == InitPersistent /\ [][NextPersistent]_vars

\* ------------------------------------------------------------------------
\* Properties
\* ------------------------------------------------------------------------
\* The invocation left an error in the bag it was given.
LeavesError(outcome) == ~outcome.throws /\ outcome.ops # <<>>

\* The schema adapter reported issues for the call's input.
ShapeInvalid(call) ==
  /\ call.presult # None
  /\ call.presult[1].issues # None

\* The attribution { id, description } of a rule definition.
Attribution(rule) == Some([id |-> rule.id, description |-> rule.description])

\* C1: the rules are invoked in declaration order; when rule k is the first
\* whose invocation leaves an error in the bag, validate returns a Failure
\* whose rule carries the id and description of rule k, and none of the
\* rules after k has been invoked.
C1_FirstFailingRule ==
  \A c \in CallIds :
    LET call == calls[c] IN
    /\ \A j \in 1..Len(call.invoked) : call.invoked[j].rule = call.rules[j]
    /\ \A k \in 1..Len(call.settled) :
         ( /\ LeavesError(call.settled[k])
           /\ \A j \in 1..(k - 1) : ~LeavesError(call.settled[j]) )
         => /\ Len(call.invoked) = k
            /\ call.validation # None
            /\ ~call.validation[1].success
            /\ call.validation[1].rule = Attribution(call.rules[k])

\* A validate call on two rules has failed at the first rule through its
\* global slot, and the second rule was not invoked.
C1_Witness ==
  \E c \in CallIds :
    /\ calls[c].pc = "done"
    /\ calls[c].op = "validate"
    /\ Len(calls[c].rules) = 2
    /\ Len(calls[c].settled) = 1
    /\ calls[c].settled[1].ops = AddsGlobalError
    /\ Len(calls[c].invoked) = 1
    /\ calls[c].validation[1].rule = Attribution(RuleDefs[1])

\* C2: when the schema adapter reports issues, no rule is invoked, and the
\* Failure validate returns has no rule attribution.
C2_ShapeFailureSkipsRules ==
  \A c \in CallIds :
    LET call == calls[c] IN
    ShapeInvalid(call) =>
      /\ call.invoked = <<>>
      /\ call.pc \in {"schema", "validated", "done", "thrown"}
      /\ call.pc \in {"validated", "done"} =>
           /\ call.validation # None
           /\ ~call.validation[1].success
           /\ call.validation[1].rule = None

\* A validator with two rules has returned a shape Failure.
C2_Witness ==
  \E c \in CallIds :
    /\ calls[c].pc = "done"
    /\ ShapeInvalid(calls[c])
    /\ Len(calls[c].rules) = 2
    /\ ~calls[c].validation[1].success
    /\ calls[c].invoked = <<>>

\* The context increment a rule's return value carries: the object under
\* `context`, if there is one.
Increment(returns) ==
  IF returns.type = "object" /\ returns.hasContext
     /\ returns.contextType = "object"
  THEN returns.context
  ELSE <<>>

\* The shallow merge of the increments of the first m settled rules: every
\* key some increment has, with the value of the last increment that has it.
ExpectedContext(settled, m) ==
  LET inc(j) == Increment(settled[j].returns)
      keys == UNION {DOMAIN inc(j) : j \in 1..m}
      last(k) == CHOOSE j \in 1..m :
                   /\ k \in DOMAIN inc(j)
                   /\ \A i \in (j + 1)..m : k \notin DOMAIN inc(i)
  IN [k \in keys |-> inc(last(k))[k]]

\* C3: rule n is passed the merge of the increments returned by rules 1 to
\* n-1, later keys overwriting earlier ones, and a Success carries the merge
\* of the increments of all rules.
C3_ContextIsMergeOfIncrements ==
  \A c \in CallIds :
    LET call == calls[c] IN
    /\ \A n \in 1..Len(call.invoked) :
         /\ Len(call.settled) >= n - 1
         /\ call.invoked[n].context = ExpectedContext(call.settled, n - 1)
    /\ (call.validation # None /\ call.validation[1].success) =>
         /\ Len(call.settled) = Len(call.rules)
         /\ call.validation[1].context =
              Some(ExpectedContext(call.settled, Len(call.rules)))
    /\ (call.result # None /\ call.result[1].success) =>
         call.result[1].context =
           Some(ExpectedContext(call.settled, Len(call.rules)))

\* Two rules returned increments that collide on key "a"; the second rule
\* saw the first increment and the Success holds the overwritten value.
C3_Witness ==
  \E c \in CallIds :
    /\ calls[c].pc = "done"
    /\ Len(calls[c].settled) = 2
    /\ calls[c].settled[1].returns = RetContext("a" :> 2 @@ "b" :> 1)
    /\ calls[c].settled[2].returns = RetContext("a" :> 1)
    /\ calls[c].invoked[2].context = ("a" :> 2 @@ "b" :> 1)
    /\ calls[c].validation[1].success
    /\ calls[c].validation[1].context = Some("a" :> 1 @@ "b" :> 1)

\* execute added an error to its bag or returned an ErrorBag.
ExecuteFailed(call) ==
  /\ Len(call.executeSettled) = 1
  /\ ~call.executeSettled[1].throws
  /\ \/ call.executeSettled[1].ops # <<>>
     \/ call.executeSettled[1].returns.type \in {"ErrorBag", "argsBag"}

\* C4: a Failure of run has step "validation" exactly when the adapter
\* reported issues or a rule added an error, step "execution" exactly when
\* execute added an error or returned an ErrorBag, and with step "execution"
\* it has no rule attribution.
C4_StepClassification ==
  \A c \in CallIds :
    LET call == calls[c] IN
    (call.result # None /\ ~call.result[1].success) =>
      /\ call.result[1].step \in {"validation", "execution"}
      /\ call.result[1].step = "validation" <=>
           \/ ShapeInvalid(call)
           \/ \E k \in 1..Len(call.settled) : LeavesError(call.settled[k])
      /\ call.result[1].step = "execution" <=> ExecuteFailed(call)
      /\ call.result[1].step = "execution" => call.result[1].rule = None

\* A run whose rule passed has failed because execute returned an ErrorBag.
C4_Witness ==
  \E c \in CallIds :
    /\ calls[c].pc = "done"
    /\ calls[c].op = "run"
    /\ Len(calls[c].settled) >= 1
    /\ Len(calls[c].executeSettled) = 1
    /\ calls[c].executeSettled[1].returns.type = "ErrorBag"
    /\ calls[c].executeSettled[1].ops = <<>>
    /\ calls[c].result[1].step = "execution"
    /\ calls[c].result[1].rule = None

\* C5: execute is invoked at most once, and only after the adapter accepted
\* the input and every rule settled without an error; after a validation
\* Failure execute is not invoked and run returns that Failure's errors and
\* rule attribution.
C5_ExecuteOnlyAfterValidation ==
  \A c \in CallIds :
    LET call == calls[c] IN
    /\ Len(call.executed) <= 1
    /\ Len(call.executed) = 1 =>
         /\ call.adapterCalls = 1
         /\ ~ShapeInvalid(call)
         /\ Len(call.settled) = Len(call.rules)
         /\ \A j \in 1..Len(call.settled) :
              /\ ~call.settled[j].throws
              /\ ~LeavesError(call.settled[j])
    /\ (call.validation # None /\ ~call.validation[1].success) =>
         /\ call.executed = <<>>
         /\ call.pc \in {"validated", "done"}
         /\ (call.pc = "done" /\ call.op # "validate") =>
              /\ call.result # None
              /\ ~call.result[1].success
              /\ call.result[1].errors = call.validation[1].errors
              /\ call.result[1].rule = call.validation[1].rule

\* A run has returned the Failure of its second rule, attribution included,
\* without invoking execute.
C5_Witness ==
  \E c \in CallIds :
    /\ calls[c].pc = "done"
    /\ calls[c].op = "run"
    /\ Len(calls[c].settled) = 2
    /\ LeavesError(calls[c].settled[2])
    /\ calls[c].executed = <<>>
    /\ calls[c].result[1].rule = Attribution(RuleDefs[2])
    /\ calls[c].result[1].errors = calls[c].validation[1].errors

\* The message of the precondition error an operation raises while the
\* dependency state is `required`.
DepsMessage(op) == "Deps should be provided before calling " \o op

\* C6: a validate, run or runShape call made while the dependency state is
\* `required` raises the precondition error of that operation, whatever the
\* schema and the rules are, returns no result and invokes neither the
\* adapter, nor a rule, nor execute; a call that has raised does nothing more.
C6_RequiredAlwaysRaises ==
  [][\A c \in CallIds :
       /\ ( /\ calls[c].pc = "idle"
            /\ calls'[c].pc # "idle"
            /\ state.depsStatus = "required" )
          => /\ calls'[c].pc = "thrown"
             /\ calls'[c].error = DepsMessage(calls'[c].op)
             /\ calls'[c].validation = None
             /\ calls'[c].result = None
             /\ calls'[c].adapterCalls = 0
             /\ calls'[c].invoked = <<>>
             /\ calls'[c].executed = <<>>
       /\ calls[c].pc = "thrown" => calls'[c] = calls[c]]_vars

\* run has raised the dependency error on a command whose builder has rules
\* but no schema.
C6_Witness ==
  \E c \in CallIds :
    /\ calls[c].pc = "thrown"
    /\ calls[c].op = "run"
    /\ calls[c].error = DepsMessage("run")
    /\ calls[c].adapterCalls = 0
    /\ state.depsStatus = "required"
    /\ state.schema = Undefined
    /\ Len(state.contextRules) = 2

\* C7: in a run whose validator had dependencies supplied when it started,
\* execute is passed the dependency value every rule of that run was passed.
C7_SameDepsForRulesAndExecute ==
  \A c \in CallIds :
    LET call == calls[c] IN
    (call.deps \in DepsValues /\ Len(call.executed) = 1) =>
      \A j \in 1..Len(call.invoked) :
        call.executed[1].deps = call.invoked[j].deps

\* C8: a run on a command returned by Command.provide(d) passes d to its
\* rules and to execute, also when Command.provide has been called with
\* other dependencies as well.
C8_ProvidedCommandKeepsDeps ==
  \A c \in CallIds :
    LET call == calls[c] IN
    ( /\ call.cmd # None
      /\ call.cmd[1].provided # Undefined
      /\ \A d \in DepsValues : \E k \in commands : k.provided = d ) =>
      /\ \A j \in 1..Len(call.invoked) :
           call.invoked[j].deps = call.cmd[1].provided
      /\ \A j \in 1..Len(call.executed) :
           call.executed[j].deps = call.cmd[1].provided

\* C9 as stated: once the dependency state is `passed`, no operation moves
\* it back to `required`.
C9_NeverBackToRequired ==
  [][state.depsStatus = "passed" => state'.depsStatus # "required"]_vars

\* C9, amended: the state starts at `not-required`, $deps() moves it to
\* `required`, provide moves it to `passed`, and from `passed` only $deps()
\* moves it back to `required`: input, rule, provide, command and the calls
\* never do.
C9_OnlyDollarDepsGoesBack ==
  /\ state.depsStatus = "not-required"
  /\ [][ /\ BuilderDollarDeps => state'.depsStatus = "required"
         /\ (BuilderProvide \/ CommandProvide) =>
              state'.depsStatus = "passed"
         /\ (state.depsStatus = "passed" /\ state'.depsStatus # "passed") =>
              (BuilderDollarDeps /\ state'.depsStatus = "required") ]_vars

\* Dependencies were supplied and $deps() was called afterwards: the state is
\* `required` again, with the supplied value still in place.
C9_Witness ==
  /\ state.depsStatus = "required"
  /\ state.deps \in DepsValues
  /\ Len(state.contextRules) > 0
  /\ commands # {}

\* C10 as stated: once a Command is built, the rule sequence a run on it
\* evaluates does not change.
C10_BuiltCommandRulesFixed ==
  [][\A k \in commands : state'.contextRules = state.contextRules]_vars

\* C10, amended: a call keeps the rule array it captured when it started,
\* whatever rule() calls follow, and invokes its rules from that array;
\* rule() only appends to the builder's sequence; and a call started later,
\* through the builder or through a Command built earlier, captures the
\* builder's sequence as it is then.
C10_CallKeepsCapturedRules ==
  [][ /\ \A c \in CallIds :
           /\ calls[c].pc # "idle" => calls'[c].rules = calls[c].rules
           /\ (calls[c].pc = "idle" /\ calls'[c].pc \notin {"idle", "thrown"})
                => calls'[c].rules = state.contextRules
           /\ \A j \in 1..Len(calls'[c].invoked) :
                calls'[c].invoked[j].rule = calls'[c].rules[j]
      /\ \/ state'.contextRules = state.contextRules
         \/ /\ Len(state'.contextRules) = Len(state.contextRules) + 1
            /\ SubSeq(state'.contextRules, 1, Len(state.contextRules))
                 = state.contextRules ]_vars

\* A run on a built command captured one rule, a second rule was attached
\* while it was in flight, and the run succeeded after invoking one rule.
C10_Witness ==
  \E c \in CallIds :
    /\ calls[c].pc = "done"
    /\ calls[c].op = "run"
    /\ Len(calls[c].rules) = 1
    /\ Len(calls[c].invoked) = 1
    /\ Len(state.contextRules) = 2
    /\ calls[c].result[1].success

(***************************************************************************)
(* C11 (as stated).  Every rule is invoked with the value the schema       *)
(* adapter produced for the input, also when that value differs from the   *)
(* raw input (the adapter here fills in a role the caller did not give).   *)
(* validate hands the rule `args.input`, the object the caller passed.     *)
(***************************************************************************)
C11_RulesGetTypedValue ==
    \A c \in CallIds :
        \A j \in 1..Len(calls[c].invoked) :
            /\ Len(calls[c].presult) = 1
            /\ calls[c].invoked[j].data = calls[c].presult[1].value

(***************************************************************************)
(* C12 (as stated).  While the builder is `not-required` (the initial      *)
(* state, never re-entered) no call raises the dependency precondition     *)
(* error and every rule and every execute is passed the empty dependency   *)
(* bag.  Command.run passes execute `internals.deps`, which is undefined.  *)
(***************************************************************************)
C12_NotRequiredEmptyDeps ==
    state.depsStatus = "not-required" =>
        \A c \in CallIds :
            LET call == calls[c] IN
            /\ call.error # DepsMessage(call.op)
            /\ \A j \in 1..Len(call.invoked) :
                   call.invoked[j].deps = EmptyDeps
            /\ \A j \in 1..Len(call.executed) :
                   call.executed[j].deps = EmptyDeps

\* The bag holding exactly what the first n invocations recorded in `settled`
\* added, in order.
RECURSIVE OwnBag(_, _)
OwnBag(settled, n) ==
  IF n = 0
  THEN NewErrorBag
  ELSE ApplyBagOps(OwnBag(settled, n - 1), settled[n].ops)

\* The errors a finished call reports are its own.
C13_OwnErrors ==
  \A c \in CallIds :
    LET call == calls[c] IN
    /\ (call.validation # None /\ ~call.validation[1].success)
       => \/ ShapeInvalid(call)
          \/ /\ LeavesError(call.settled[Len(call.settled)])
             /\ call.validation[1].errors[1]
                  = OwnBag(call.settled, Len(call.settled))
    /\ (call.result # None /\ ~call.result[1].success
                           /\ call.result[1].step = "execution")
       => /\ ExecuteFailed(call)
          /\ call.result[1].errors[1]
               \in {OwnBag(call.executeSettled, 1),
                    call.executeSettled[1].returns.bag}

\* A step of one call leaves the other call as it was.
C13_OneCallPerStep ==
  \A c, d \in CallIds :
    c # d => (calls'[c] = calls[c] \/ calls'[d] = calls[d])

(***************************************************************************)
(* C13.  With two validate or run calls in flight on the same validator    *)
(* and their steps interleaved in any order, each call has its own error   *)
(* bag: a call fails only on its own input or on an error one of its own   *)
(* rules (or its own execute) added, the errors it reports are exactly the *)
(* ones its own invocations added, and no step of one call changes         *)
(* anything held by the other.                                             *)
(***************************************************************************)
C13_OwnErrorBag == []C13_OwnErrors /\ [][C13_OneCallPerStep]_vars

\* Call 1 is a run whose second rule has added an error and which is still
\* suspended, while call 2, started on the same validator, has passed its
\* first rule and waits for its second with an empty bag.
C13_Witness ==
  /\ calls[1].op = "run"
  /\ calls[1].pc = "validated"
  /\ Len(calls[1].settled) = 2
  /\ LeavesError(calls[1].settled[2])
  /\ calls[2].pc = "rule"
  /\ calls[2].i = 2
  /\ calls[2].bag = NewErrorBag

(***************************************************************************)
(* C14.  The bag run hands execute is a newly made one: it is empty when   *)
(* execute is invoked and it is another object than the bag the rules of   *)
(* the same call were given.  A Failure with step "execution" therefore    *)
(* reports only what execute added to that bag or the bag execute          *)
(* returned, never an entry of the validation phase.                       *)
(***************************************************************************)
C14_ExecutionBagIsFresh ==
  \A c \in CallIds :
    LET call == calls[c] IN
    /\ \A j \in 1..Len(call.executed) :
         /\ call.executed[j].bag = NewErrorBag
         /\ \A n \in 1..Len(call.invoked) :
              call.executed[j].bagRef # call.invoked[n].bagRef
    /\ (call.result # None /\ ~call.result[1].success
                           /\ call.result[1].step = "execution")
       => /\ Len(call.executeSettled) = 1
          /\ call.result[1].errors[1]
               \in {ApplyBagOps(NewErrorBag, call.executeSettled[1].ops),
                    call.executeSettled[1].returns.bag}

\* A run whose two rules were invoked has failed at execution, with the one
\* error execute added to the bag it was handed.
C14_Witness ==
  \E c \in CallIds :
    /\ calls[c].pc = "done"
    /\ Len(calls[c].invoked) = 2
    /\ Len(calls[c].executeSettled) = 1
    /\ calls[c].executeSettled[1].ops = AddsKeyedError
    /\ calls[c].result # None
    /\ calls[c].result[1].step = "execution"
    /\ calls[c].result[1].errors = Some(ApplyBagOps(NewErrorBag, AddsKeyedError))

(***************************************************************************)
(* C15.  A run that has returned has returned a Success exactly when its   *)
(* validation succeeded, execute settled without throwing, the execution   *)
(* bag holds no error after it and execute did not return an ErrorBag.     *)
(* The Success carries what execute returned as result and the merge of    *)
(* the rules' context increments as context.                               *)
(***************************************************************************)
C15_SuccessOfRun ==
  \A c \in CallIds :
    LET call == calls[c] IN
    call.result # None =>
      /\ call.result[1].success
         <=> /\ call.validation[1].success
             /\ Len(call.executeSettled) = 1
             /\ ~call.executeSettled[1].throws
             /\ ~hasErrors(OwnBag(call.executeSettled, 1))
             /\ call.executeSettled[1].returns.type
                  \notin {"ErrorBag", "argsBag"}
      /\ call.result[1].success
         => /\ call.result[1].result = Some(call.executeSettled[1].returns)
            /\ call.result[1].context
                 = Some(ExpectedContext(call.settled, Len(call.settled)))

\* A run on two rules that both returned a context increment has returned a
\* Success with execute's value and the merged context.
C15_Witness ==
  \E c \in CallIds :
    /\ calls[c].result # None
    /\ calls[c].result[1].success
    /\ calls[c].result[1].result = Some([type |-> "value", bag |-> NewErrorBag])
    /\ Len(calls[c].settled) = 2
    /\ calls[c].result[1].context = Some("a" :> 2 @@ "b" :> 1)

\* The call record a run call would have in place of the runShape call
\* `made`, had run been called on the same command with input `in` when the
\* builder's state was s.
AsRun(made, s, in) ==
  CommandRun([IdleCall EXCEPT !.id = made.id, !.op = "run", !.cmd = made.cmd,
                              !.opts = made.opts, !.given = Some(in),
                              !.object = Some(in)],
             s, in)

(***************************************************************************)
(* C16 (as stated).  Whatever the builder's state, a runShape call leaves  *)
(* the call exactly where a run call with the same input would have left   *)
(* it: same arguments to validate, or the same raised error raised the     *)
(* same way.                                                               *)
(***************************************************************************)
C16_RunShapeSameAsRun ==
  [][\A c \in CallIds :
       (calls[c].pc = "idle" /\ calls'[c].op = "runShape")
       => \E in \in Inputs :
            [calls'[c] EXCEPT !.op = "run"] = AsRun(calls'[c], state, in)]_vars

(***************************************************************************)
(* C16 (amended).  Unless the dependency state is `required`, a runShape   *)
(* call leaves the call exactly where a run call with the same input would *)
(* have left it, the error for a missing schema included.  In `required`   *)
(* both raise the dependency precondition error and nothing else happens,  *)
(* but runShape throws it to the caller with a message naming runShape     *)
(* where run rejects its promise with a message naming run.                *)
(***************************************************************************)
C16_RunShapeSameUnlessRequired ==
  [][\A c \in CallIds :
       (calls[c].pc = "idle" /\ calls'[c].op = "runShape")
       => \E in \in Inputs :
            LET shape == calls'[c]
                run == AsRun(calls'[c], state, in)
            IN IF state.depsStatus # "required"
               THEN [shape EXCEPT !.op = "run"] = run
               ELSE /\ shape.pc = "thrown" /\ run.pc = "thrown"
                    /\ shape.error = DepsMessage("runShape")
                    /\ run.error = DepsMessage("run")
                    /\ shape.thrownSync /\ ~run.thrownSync
                    /\ [shape EXCEPT !.op = "run", !.error = run.error,
                                     !.thrownSync = FALSE] = run]_vars

\* A runShape call made after provide has gone through validation and
\* execute and returned a Success.
C16_Witness ==
  \E c \in CallIds :
    /\ calls[c].op = "runShape"
    /\ state.depsStatus = "passed"
    /\ Len(calls[c].settled) = 2
    /\ calls[c].result # None
    /\ calls[c].result[1].success

(***************************************************************************)
(* C17 (as stated).  Outside the `required` state the dependencies of the  *)
(* instance cannot be replaced and the instance cannot become `passed`:    *)
(* a provide(d) made there is rejected and changes nothing.                *)
(***************************************************************************)
C17_ProvideOnlyFromRequired ==
  [][state.depsStatus # "required"
     => /\ state'.deps = state.deps
        /\ state'.depsStatus \in {state.depsStatus, "required"}]_vars

(***************************************************************************)
(* C17 (amended).  provide(d), on the builder or through a command, is     *)
(* accepted at run time in every dependency state: whatever the state was, *)
(* the instance then holds d as its dependencies and is `passed`, with its *)
(* schema and rules untouched.  (Only the static type of the receiver      *)
(* limits provide to `required`.)                                          *)
(***************************************************************************)
C17_ProvideAcceptedInEveryState ==
  [][(BuilderProvide \/ CommandProvide)
     => \E d \in DepsValues :
          state' = [state EXCEPT !.deps = d, !.depsStatus = "passed"]]_vars

\* provide has been called once with each value through a command, the
\* later call on an instance that already held the other value; the instance
\* is `passed` and holds the later value.
C17_Witness ==
  /\ state.depsStatus = "passed"
  /\ state.deps = "depsB"
  /\ \E k \in commands : k.provided = "depsA"
  /\ \E k \in commands : k.provided = "depsB"

\* The precondition errors of a call made on a builder without schema.
SchemaMessages ==
  {"Schema must be defined before calling validate",
   "Schema must be defined before calling command"}

(***************************************************************************)
(* C18.  A validate, run or runShape call made while no schema is attached *)
(* raises a precondition error: it returns no result, neither Success nor  *)
(* Failure, and it invokes neither the adapter, nor a rule, nor execute.   *)
(***************************************************************************)
C18_NoSchemaFailsFast ==
  [][\A c \in CallIds :
       (calls[c].pc = "idle" /\ calls'[c].pc # "idle"
                             /\ state.schema = Undefined)
       => /\ calls'[c].pc = "thrown"
          /\ calls'[c].error \in SchemaMessages \cup {DepsMessage(calls'[c].op)}
          /\ state.depsStatus # "required" => calls'[c].error \in SchemaMessages
          /\ calls'[c].validation = None
          /\ calls'[c].result = None
          /\ calls'[c].adapterCalls = 0
          /\ calls'[c].invoked = <<>>
          /\ calls'[c].executed = <<>>]_vars

\* A run made on a builder that has rules and a command but no schema has
\* raised the schema precondition error.
C18_Witness ==
  \E c \in CallIds :
    /\ state.schema = Undefined
    /\ Len(state.contextRules) = 2
    /\ calls[c].op = "run"
    /\ calls[c].pc = "thrown"
    /\ calls[c].error = "Schema must be defined before calling command"

\* The adapter reported, for the call's input, an issue whose message is not
\* a string or whose path is neither an array nor a string.
MalformedIssue(call) ==
  /\ ShapeInvalid(call)
  /\ \E n \in 1..Len(call.presult[1].issues[1]) :
       \/ call.presult[1].issues[1][n].message.type # "string"
       \/ call.presult[1].issues[1][n].path.type \notin {"array", "string"}

(***************************************************************************)
(* C19.  When the adapter has reported an issue whose message is not a     *)
(* string or whose path is neither a string nor an array (a missing path   *)
(* included), the call, once resumed, has raised an error: validate has    *)
(* returned no result, no Failure was built from the well-formed issues    *)
(* before or after the malformed one, and no rule or execute was invoked.  *)
(***************************************************************************)
C19_MalformedIssueIsFatal ==
  \A c \in CallIds :
    LET call == calls[c] IN
    (MalformedIssue(call) /\ call.pc # "schema")
    => /\ call.pc = "thrown"
       /\ call.error \in {"Unexpected error format, expected string",
                          "Unsupported issue path type"}
       /\ call.validation = None
       /\ call.result = None
       /\ call.invoked = <<>>
       /\ call.executed = <<>>

\* A validate call on a builder with rules, whose adapter reported a
\* well-formed issue followed by one without path, has raised.
C19_Witness ==
  \E c \in CallIds :
    /\ calls[c].op = "validate"
    /\ Len(calls[c].rules) = 2
    /\ calls[c].input = Some([name |-> ""])
    /\ calls[c].pc = "thrown"
    /\ calls[c].error = "Unsupported issue path type"

(***************************************************************************)
(* C20.  When a rule raises, the validate or run call raises that same     *)
(* error: it has no validation result and no run result, the rule that     *)
(* raised is the last one invoked and execute is not invoked.  When        *)
(* execute raises, the run call raises that same error and has no result.  *)
(***************************************************************************)
C20_ExceptionsPropagate ==
  \A c \in CallIds :
    LET call == calls[c] IN
    /\ \A j \in 1..Len(call.settled) :
         call.settled[j].throws
         => /\ call.pc = "thrown"
            /\ call.error = "raised by rule"
            /\ call.validation = None
            /\ call.result = None
            /\ Len(call.invoked) = j
            /\ Len(call.settled) = j
            /\ call.executed = <<>>
    /\ \A j \in 1..Len(call.executeSettled) :
         call.executeSettled[j].throws
         => /\ call.pc = "thrown"
            /\ call.error = "raised by execute"
            /\ call.result = None
            /\ Len(call.executed) = 1

\* A run on two rules has raised because its first rule raised.
C20_Witness ==
  \E c \in CallIds :
    /\ calls[c].op = "run"
    /\ Len(calls[c].rules) = 2
    /\ Len(calls[c].settled) = 1
    /\ calls[c].settled[1].throws
    /\ calls[c].pc = "thrown"

(***************************************************************************)
(* C21.  What validate returns is either a Success, with value and context *)
(* and neither errors nor rule, or a Failure, with errors and neither      *)
(* value nor context.  A Failure has a rule attribution exactly when the   *)
(* adapter reported no issue, that is when a rule produced the failure,    *)
(* and the attribution is the id and description of the last rule invoked. *)
(***************************************************************************)
C21_ResultVariants ==
  \A c \in CallIds :
    LET call == calls[c] IN
    call.validation # None
    => LET v == call.validation[1] IN
       IF v.success
       THEN /\ v.value # None /\ v.context # None
            /\ v.errors = None /\ v.rule = None
       ELSE /\ v.errors # None
            /\ v.value = None /\ v.context = None
            /\ v.rule # None <=> ~ShapeInvalid(call)
            /\ v.rule # None
               => /\ call.invoked # <<>>
                  /\ v.rule = Attribution(call.invoked[Len(call.invoked)].rule)

\* A validate call has failed at its second rule, declared without id and
\* description: the Failure has a rule attribution, with both left out.
C21_Witness ==
  \E c \in CallIds :
    /\ calls[c].op = "validate"
    /\ calls[c].validation # None
    /\ ~calls[c].validation[1].success
    /\ Len(calls[c].invoked) = 2
    /\ calls[c].validation[1].rule
         = Some([id |-> Undefined, description |-> Undefined])

(***************************************************************************)
(* C22.  Whatever addError and addGlobalError calls have been made on a    *)
(* bag, hasErrors() is true exactly when at least one of them has been     *)
(* made; on a new bag it is false.  This holds of the value the method     *)
(* would return now and of the value it returned to the caller.            *)
(***************************************************************************)
C22_HasErrorsIffRecorded ==
  /\ hasErrors(errorBag) <=> history # <<>>
  /\ views["hasErrors"] # None
     => (views["hasErrors"][1] <=> history # <<>>)

\* hasErrors() has returned true on a bag on which a single call was made,
\* of addGlobalError.
C22_Witness ==
  /\ Len(history) = 1
  /\ history[1].op = "addGlobalError"
  /\ views["hasErrors"] = Some(TRUE)

\* The message of the earliest addError(key, ...) among the calls made, or
\* undefined when there is none.
FirstRecorded(key) ==
  LET made == {i \in 1..Len(history) :
                 history[i].op = "addError" /\ history[i].key = key}
  IN IF made = {} THEN Undefined
     ELSE history[CHOOSE i \in made : \A j \in made : i <= j].message

(***************************************************************************)
(* C23.  firstError(key) returns the message of the earliest addError call *)
(* made with that key, and undefined for a key no addError call used       *)
(* (calls of addGlobalError do not count); it returns in every case.       *)
(***************************************************************************)
C23_FirstErrorIsEarliest ==
  /\ \A key \in BagKeys \cup {"global", "age"} :
       firstError(errorBag, key) = FirstRecorded(key)
  /\ views["firstError"] # None
     => views["firstError"][1].message
          = FirstRecorded(views["firstError"][1].key)

\* firstError("name") has returned the first of two different messages
\* recorded for name, with an error of another key recorded in between.
C23_Witness ==
  /\ Len(history) = 3
  /\ history[1] = [op |-> "addError", key |-> "name", message |-> "required"]
  /\ history[2].key = "email"
  /\ history[3] = [op |-> "addError", key |-> "name", message |-> "taken"]
  /\ views["firstError"] = Some([key |-> "name", message |-> "required"])

(***************************************************************************)
(* C24 (as stated).  What toFlattenObject() returns has exactly the keys   *)
(* with at least one recorded error and gives each of them the first       *)
(* message recorded for it, the one firstError(key) returns.  The loop     *)
(* assigns result[key] for every issue, so the last message is the one     *)
(* that stays.                                                             *)
(***************************************************************************)
C24_FlattenIsFirstMessage ==
  views["toFlattenObject"] # None
  => LET flat == views["toFlattenObject"][1] IN
     /\ DOMAIN flat = {key \in BagKeys : FirstRecorded(key) # Undefined}
     /\ \A key \in DOMAIN flat : flat[key] = firstError(errorBag, key)

\* What a read-only method returns on bag b (firstError for the given key).
Returned(view, b, key) ==
  CASE view = "hasErrors" -> hasErrors(b)
    [] view = "firstError" -> [key |-> key, message |-> firstError(b, key)]
    [] view = "toObject" -> toObject(b)
    [] view = "toFlattenObject" -> toFlattenObject(b)
    [] view = "toHtml" -> toHtml(b)
    [] view = "toText" -> toText(b)

\* Every value a read-only method has returned since the last addError or
\* addGlobalError is the value the same call returns now.
C25_SameResultAgain ==
  \A view \in ViewNames :
    views[view] # None
    => views[view][1]
         = Returned(view, errorBag,
                    IF view = "firstError" THEN views[view][1].key
                    ELSE Undefined)

\* A step that is not a call of addError or addGlobalError leaves the
\* recorded errors, and with them hasErrors(), as they were.
C25_ReadsChangeNothing ==
  history' = history
  => /\ errorBag' = errorBag
     /\ hasErrors(errorBag') = hasErrors(errorBag)

C26_ChainReusesBuilder ==
  /\ returned \subseteq {"this"}
  /\ \A k \in commands : k.validatorBuilder = "this"

\* input, rule (twice), $deps and provide have been chained and a command
\* has been given dependencies: every reference handed back is the builder.
C26_Witness ==
  /\ returned = {"this"}
  /\ state.schema # Undefined
  /\ Len(state.contextRules) = 2
  /\ state.depsStatus = "passed"
  /\ \E k \in commands : k.provided # Undefined

\* In every call the rules invoked so far are the first ones declared, in
\* order and each once, and at most the last of them has not settled; one is
\* unsettled exactly while the call is suspended at its await.
C27_InvokedIsPrefix ==
  \A c \in CallIds :
    LET call == calls[c] IN
    /\ Len(call.invoked) <= Len(call.rules)
    /\ \A j \in 1..Len(call.invoked) : call.invoked[j].rule = call.rules[j]
    /\ \A i, j \in 1..Len(call.invoked) :
         i # j => call.invoked[i].rule # call.invoked[j].rule
    /\ Len(call.settled) <= Len(call.invoked)
    /\ Len(call.invoked) <= Len(call.settled) + 1
    /\ Len(call.invoked) = Len(call.settled) + 1 <=> call.pc = "rule"

\* A step invokes at most one more rule, and only when every rule invoked
\* before has settled.
C27_NextAfterSettled ==
  \A c \in CallIds :
    Len(calls'[c].invoked) # Len(calls[c].invoked)
    => /\ Len(calls'[c].invoked) = Len(calls[c].invoked) + 1
       /\ Len(calls'[c].settled) = Len(calls[c].invoked)

(***************************************************************************)
(* C27.  Within one call the rules are invoked one at a time, in           *)
(* declaration order and each at most once: the rules invoked are always a *)
(* prefix of the declared sequence, and rule i+1 is invoked only in a step *)
(* in which rule i, awaited by validate, has settled.                      *)
(***************************************************************************)
C27_OneRuleAtATime == []C27_InvokedIsPrefix /\ [][C27_NextAfterSettled]_vars

\* A call on two rules is suspended at its second rule; the first has
\* settled.
C27_Witness ==
  \E c \in CallIds :
    /\ calls[c].pc = "rule"
    /\ Len(calls[c].rules) = 2
    /\ Len(calls[c].invoked) = 2
    /\ Len(calls[c].settled) = 1

\* The own keys of the value a rule returned: its `context` property, when
\* it has one, and its other properties.
ReturnedKeys(returns) ==
  DOMAIN returns.own \cup (IF returns.hasContext THEN {"context"} ELSE {})

\* The context of a call after its rule j: the one rule j+1 was invoked with
\* or, after the last rule, the one of the Success.
ContextAfter(call, j) ==
  IF j < Len(call.invoked)
  THEN call.invoked[j + 1].context
  ELSE call.validation[1].context[1]

\* Rule j of the call returned without leaving an error and validate has
\* gone on from it.
PassedRule(call, j) ==
  /\ j <= Len(call.settled)
  /\ ~call.settled[j].throws
  /\ ~LeavesError(call.settled[j])
  /\ j < Len(call.invoked) \/ call.validation # None

(***************************************************************************)
(* C28 (as stated).  When a rule that added no error returned an object,   *)
(* every key of that object is a key of the context from then on.          *)
(* validate merges the object held by the `context` property of what the   *)
(* rule returned, not the returned object.                                 *)
(***************************************************************************)
C28_ReturnedObjectIsMerged ==
  \A c \in CallIds :
    \A j \in 1..Len(calls[c].settled) :
      (PassedRule(calls[c], j) /\ calls[c].settled[j].returns.type = "object")
      => ReturnedKeys(calls[c].settled[j].returns)
           \subseteq DOMAIN ContextAfter(calls[c], j)

(***************************************************************************)
(* C28 (amended).  When a rule that added no error returned an object      *)
(* whose `context` property is a non-null object, the keys of that         *)
(* property are shallow-merged into the running context: each has the      *)
(* returned value in the context right after the rule and stays a key of   *)
(* the context of every following rule and of the Success.  Anything else  *)
(* a rule returns (nothing, an object whose context is null, the other     *)
(* properties of the returned object) leaves the context as it was.        *)
(***************************************************************************)
C28_ContextPropertyIsMerged ==
  \A c \in CallIds :
    LET call == calls[c] IN
    \A j \in 1..Len(call.settled) :
      PassedRule(call, j)
      => LET before == call.invoked[j].context
             after == ContextAfter(call, j)
             inc == Increment(call.settled[j].returns)
         IN /\ DOMAIN after = DOMAIN before \cup DOMAIN inc
            /\ \A k \in DOMAIN inc : after[k] = inc[k]
            /\ \A k \in DOMAIN before \ DOMAIN inc : after[k] = before[k]
            /\ \A n \in j..Len(call.settled) :
                 PassedRule(call, n)
                 => DOMAIN inc \subseteq DOMAIN ContextAfter(call, n)

\* A validate call has succeeded after a first rule that returned
\* { context: null, c: 1 } and a second that returned { context: { a: 1 } }:
\* its context is { a: 1 }.
C28_Witness ==
  \E c \in CallIds :
    /\ calls[c].pc = "done"
    /\ Len(calls[c].settled) = 2
    /\ calls[c].settled[1].returns = RetNullContext("c" :> 1)
    /\ calls[c].settled[2].returns = RetContext("a" :> 1)
    /\ calls[c].validation # None
    /\ calls[c].validation[1].context = Some("a" :> 1)

(***************************************************************************)
(* C29.  Whatever calls the same caller made before on the same validator, *)
(* a call starts from an empty bag and an empty context: its first rule is *)
(* handed both empty, a call whose input is valid and whose own rules add  *)
(* nothing succeeds, the context of its Success is the merge of the        *)
(* increments of its own rules, and the errors of its Failure are the ones *)
(* its own issues or rules produced.                                       *)
(***************************************************************************)
C29_EveryCallStartsAfresh ==
  \A c \in CallIds :
    LET call == calls[c] IN
    /\ call.invoked # <<>>
       => /\ call.invoked[1].bag = NewErrorBag
          /\ call.invoked[1].context = <<>>
    /\ ( /\ call.presult # None
         /\ ~ShapeInvalid(call)
         /\ Len(call.settled) = Len(call.rules)
         /\ call.pc \notin {"idle", "schema", "rule"}
         /\ \A j \in 1..Len(call.settled) :
              ~call.settled[j].throws /\ ~LeavesError(call.settled[j]) )
       => /\ call.validation # None
          /\ call.validation[1].success
          /\ call.validation[1].context
               = Some(ExpectedContext(call.settled, Len(call.settled)))
    /\ (call.validation # None /\ ~call.validation[1].success)
       => call.validation[1].errors[1]
            = IF ShapeInvalid(call)
              THEN IssuesToBag(call.presult[1].issues[1],
                               Len(call.presult[1].issues[1]))
              ELSE OwnBag(call.settled, Len(call.settled))

\* After a call that failed at its second rule, with an error in its bag and
\* the keys a and b in its context, the caller's next call has succeeded
\* with a context holding nothing but what its own rules returned.
C29_Witness ==
  \E c \in CallIds :
    /\ Len(calls[c].earlier) = 1
    /\ calls[c].earlier[1].failed
    /\ hasErrors(calls[c].earlier[1].bag)
    /\ calls[c].earlier[1].context = ("a" :> 2 @@ "b" :> 1)
    /\ calls[c].validation # None
    /\ calls[c].validation[1].success
    /\ calls[c].validation[1].context = Some("a" :> 1)

(***************************************************************************)
(* C30 (as stated).  The bag of every Failure, of validate and of run,     *)
(* holds at least one error.  validate builds a Failure whenever the       *)
(* adapter's result has an issues array, an empty one included, and run    *)
(* builds one whenever execute returns an ErrorBag, an empty one included. *)
(***************************************************************************)
C30_FailureHasErrors ==
  \A c \in CallIds :
    LET call == calls[c] IN
    /\ (call.validation # None /\ ~call.validation[1].success)
       => hasErrors(call.validation[1].errors[1])
    /\ (call.result # None /\ ~call.result[1].success)
       => hasErrors(call.result[1].errors[1])

\* The keys of the first n issues, each once, in the order in which they
\* first appear.
RECURSIVE KeysInOrder(_, _)
KeysInOrder(issues, n) ==
  IF n = 0 THEN <<>>
  ELSE LET before == KeysInOrder(issues, n - 1)
       IN IF \E i \in 1..Len(before) : before[i] = issues[n].key
          THEN before
          ELSE Append(before, issues[n].key)

\* The lines of a rendering grouped by key, for keys[1..n]: the key once,
\* then "- message" for each message recorded for it, in insertion order.
RECURSIVE GroupedLines(_, _, _)
GroupedLines(b, keys, n) ==
  IF n = 0 THEN <<>>
  ELSE GroupedLines(b, keys, n - 1)
       \o <<keys[n]>>
       \o [i \in 1..Len(MessagesOf(b, keys[n])) |->
             "- " \o MessagesOf(b, keys[n])[i]]

(***************************************************************************)
(* C31 (as stated).  What toText() returns is grouped by key whatever the  *)
(* insertion order: each key with errors is a heading exactly once,        *)
(* followed by all the messages recorded for it in insertion order.        *)
(* toText starts a new heading whenever the key differs from the key of    *)
(* the issue before, so a key whose errors are not adjacent is a heading   *)
(* more than once.                                                         *)
(***************************************************************************)
C31_TextGroupsByKey ==
  views["toText"] # None
  => views["toText"][1]
       = LET keys == KeysInOrder(errorBag.issues, Len(errorBag.issues))
         IN JoinWith(GroupedLines(errorBag, keys, Len(keys)), "\n")


\* The (key, message) pairs of the addError calls made, in call order.
KeyedCalls ==
  LET made == SelectSeq(history, LAMBDA call : call.op = "addError")
  IN [i \in 1..Len(made) |-> [key |-> made[i].key, message |-> made[i].message]]

\* The message of the latest addGlobalError call made, undefined when there
\* was none.
LatestGlobalCall ==
  LET made == SelectSeq(history, LAMBDA call : call.op = "addGlobalError")
  IN IF made = <<>> THEN Undefined ELSE made[Len(made)].message

(***************************************************************************)
(* C33.  After any sequence of addError and addGlobalError calls the bag   *)
(* holds the (key, message) pair of every addError call, in call order,    *)
(* and its global slot holds the message of the latest addGlobalError call *)
(* only; toObject() returns that message as `global` and, under each key,  *)
(* the messages recorded for the key in call order.                        *)
(***************************************************************************)
C33_KeyedKeptGlobalReplaced ==
  /\ errorBag.issues = KeyedCalls
  /\ errorBag.global = LatestGlobalCall
  /\ views["toObject"] # None
     => LET object == views["toObject"][1]
        IN /\ object.global = LatestGlobalCall
           /\ DOMAIN object.issues
                = {KeyedCalls[i].key : i \in 1..Len(KeyedCalls)}
           /\ \A key \in DOMAIN object.issues :
                LET own == SelectSeq(KeyedCalls, LAMBDA pair : pair.key = key)
                IN object.issues[key] = [i \in 1..Len(own) |-> own[i].message]

\* C33 witness: addGlobalError, addError, then addGlobalError with another
\* message, and toObject() has returned.
C33_Witness ==
  /\ views["toObject"] # None
  /\ Len(history) = 3
  /\ history[1].op = "addGlobalError"
  /\ history[2].op = "addError"
  /\ history[3].op = "addGlobalError"
  /\ history[1].message # history[3].message

\* The latest call made on the bag.
LatestCall == history'[Len(history')]

(***************************************************************************)
(* C34.  The global slot and the keyed list are independent: a call of     *)
(* addGlobalError changes neither firstError(k) for any key k nor the      *)
(* issues of toObject(); a call of addError, with any key, "global"        *)
(* included, does not change `global`; and firstError("global") is         *)
(* undefined as long as no addError call used the key "global".            *)
(***************************************************************************)
C34_SlotAndListIndependent ==
  /\ []((\A i \in 1..Len(history) :
           ~(history[i].op = "addError" /\ history[i].key = "global"))
        => firstError(errorBag, "global") = Undefined)
  /\ [][Len(history') = Len(history) + 1
        => /\ LatestCall.op = "addGlobalError"
              => /\ \A key \in BagKeys :
                      firstError(errorBag', key) = firstError(errorBag, key)
                 /\ toObject(errorBag').issues = toObject(errorBag).issues
           /\ LatestCall.op = "addError"
              => /\ errorBag'.global = errorBag.global
                 /\ toObject(errorBag').global = toObject(errorBag).global]_vars

\* C34 witness: addGlobalError and addError("global", ...) were called with
\* different messages, and firstError("global") has returned the keyed one
\* while `global` holds the other.
C34_Witness ==
  /\ views["firstError"] # None
  /\ views["firstError"][1].key = "global"
  /\ views["firstError"][1].message # Undefined
  /\ errorBag.global # Undefined
  /\ errorBag.global # views["firstError"][1].message
  /\ \E i \in 1..Len(history) : history[i].op = "addGlobalError"


\* The property keys an array path names, joined with '.'.
RECURSIVE JoinedKeys(_)
JoinedKeys(segments) ==
  IF Len(segments) = 0 THEN ""
  ELSE IF Len(segments) = 1 THEN segments[1].key
  ELSE segments[1].key \o "." \o JoinedKeys(Tail(segments))

\* The normalized path of an issue: a string path as it is, the segments of
\* an array path joined with '.'.
NormalizedPath(issue) ==
  IF issue.path.type = "array" THEN JoinedKeys(issue.path.segments)
  ELSE issue.path.text

(***************************************************************************)
(* C32 (as stated).  The bag of a shape Failure holds one entry per issue   *)
(* of the adapter, in the adapter's order, each with the issue's message    *)
(* and keyed by the issue's normalized path; issues with distinct paths     *)
(* have distinct keys.  A path segment the adapter reports as an object     *)
(* { key } is joined as "[object Object]", so the key does not name the     *)
(* path and the issues of user.name and user.role share one key.            *)
(***************************************************************************)
C32_OneEntryPerIssuePath ==
  \A c \in CallIds :
    LET call == calls[c] IN
    (ShapeInvalid(call) /\ call.validation # None)
    => LET issues == call.presult[1].issues[1]
           entries == call.validation[1].errors[1].issues
       IN /\ Len(entries) = Len(issues)
          /\ \A n \in 1..Len(issues) :
               /\ entries[n].message = issues[n].message.text
               /\ entries[n].key = NormalizedPath(issues[n])
          /\ \A m, n \in 1..Len(issues) :
               issues[m].path # issues[n].path
               => entries[m].key # entries[n].key


\* The call was rejected by a precondition of validate, run or runShape.
RejectedByPrecondition(call) ==
  /\ call.pc = "thrown"
  /\ call.adapterCalls = 0

(***************************************************************************)
(* C35.  A call made with an override on an input that is an object (not   *)
(* null) has written every key of the override onto the caller's input     *)
(* object itself, the override's value replacing the input's own, before   *)
(* the adapter was invoked: the adapter's result is the one for the        *)
(* overridden object and every rule was handed the overridden object.  A   *)
(* call made without override, or on the input null, has left the input    *)
(* as the caller passed it, and so has a call rejected by a precondition.  *)
(***************************************************************************)
C35_OverrideWrittenOntoInput ==
  \A c \in CallIds :
    LET call == calls[c]
        override == call.opts.override
    IN call.pc # "idle"
       => IF \/ RejectedByPrecondition(call)
             \/ override = None
             \/ call.given = Some(NullInput)
          THEN /\ call.object = call.given
               /\ call.adapterCalls > 0
                  => call.presult
                       = Some(SchemaValidate(state.schema, call.given[1]))
               /\ \A j \in 1..Len(call.invoked) :
                    call.invoked[j].data = call.given
          ELSE /\ \A key \in DOMAIN override[1] :
                    call.object[1][key] = override[1][key]
               /\ \A key \in DOMAIN call.given[1] \ DOMAIN override[1] :
                    call.object[1][key] = call.given[1][key]
               /\ call.adapterCalls = 1
               /\ call.presult
                    = Some(SchemaValidate(state.schema, call.object[1]))
               /\ \A j \in 1..Len(call.invoked) :
                    call.invoked[j].data = call.object

\* C35 witness: validate was called on { name: "ab" } with the override
\* { name: "John" }; the caller's object now holds "John", the adapter
\* accepted it and both rules were handed the object holding "John".
C35_Witness ==
  \E c \in CallIds :
    /\ calls[c].op = "validate"
    /\ calls[c].pc = "done"
    /\ calls[c].given = Some([name |-> "ab"])
    /\ calls[c].opts.override = Some([name |-> "John"])
    /\ calls[c].object = Some([name |-> "John"])
    /\ calls[c].validation[1].success
    /\ Len(calls[c].invoked) = 2
    /\ calls[c].invoked[2].data = Some([name |-> "John"])


\* What a call has invoked so far: the adapter at most once, the rules of its
\* array in order and each at most once, execute at most once; and a call
\* that has ended has a result or an error.
InvokedAtMostOnce(call) ==
  /\ call.adapterCalls <= 1
  /\ Len(call.invoked) <= Len(call.rules)
  /\ \A j \in 1..Len(call.invoked) : call.invoked[j].rule = call.rules[j]
  /\ Len(call.executed) <= 1
  /\ call.pc = "done"
     => /\ call.adapterCalls = 1
        /\ IF call.op = "validate" THEN call.validation # None
                                   ELSE call.result # None
  /\ call.pc = "thrown" => call.error # Undefined

(***************************************************************************)
(* C36.  With a schema adapter, rules and an execute function whose        *)
(* promises all settle, every validate or run call that was made ends,     *)
(* with a result or with a raised error; at every moment it has invoked    *)
(* the adapter at most once, each of its rules at most once and execute    *)
(* at most once.                                                           *)
(***************************************************************************)
C36_EveryCallSettles ==
  /\ [](\A c \in CallIds : InvokedAtMostOnce(calls[c]))
  /\ [](calls[1].pc # "idle" => <>(calls[1].pc \in {"done", "thrown"}))

\* C36 witness: a run has ended after the adapter, both rules and execute
\* were invoked, once each.
C36_Witness ==
  /\ calls[1].op = "run"
  /\ calls[1].pc = "done"
  /\ calls[1].adapterCalls = 1
  /\ Len(calls[1].invoked) = 2
  /\ Len(calls[1].executed) = 1
  /\ calls[1].result # None


(***************************************************************************)
(* C37 (as stated).  When ValidatorModel.validate decides between Success  *)
(* and Failure the work of every rule is over, and a rule that adds an     *)
(* error after asynchronous work makes the result a Failure, whether the   *)
(* rule is an async function or a function returning a promise.  validate  *)
(* awaits only functions whose constructor is named AsyncFunction, so the  *)
(* error of a function that returns a promise chain is added after a       *)
(* Success was returned.                                                   *)
(***************************************************************************)
C37_DecidedAfterEveryRule ==
  (/\ validatorModel.result # None
   /\ validatorModel.presult[1].issues = None)
  => /\ validatorModel.unfinished = {}
     /\ (\E n \in 1..Len(validatorModel.rules) :
           /\ validatorModel.rules[n].fn.pending
           /\ validatorModel.rules[n].fn.late)
        => ~validatorModel.result[1].success


\* $deps() was called in the chain and provide was not called after it.
DepsStillOwed ==
  \E k \in 1..Len(fluentBuilder.chain) :
    /\ fluentBuilder.chain[k] = "$deps"
    /\ \A l \in (k + 1)..Len(fluentBuilder.chain) :
         fluentBuilder.chain[l] # "provide"

(***************************************************************************)
(* C38 (as stated).  In the persistent variant the builder input(schema)   *)
(* or addRule(rule) returns has the dependency state and the supplied      *)
(* dependencies of the builder the method was called on; and as long as    *)
(* $deps() was called and provide was not called after it, the builder is  *)
(* in `required` state and its validate throws before anything else.       *)
(* input(schema) does not copy the dependency state: the builder it        *)
(* returns is `not-required`, and validate goes through without deps.      *)
(***************************************************************************)
C38_InputAndAddRuleKeepDeps ==
  /\ (/\ fluentBuilder.chain # <<>>
      /\ fluentBuilder.chain[Len(fluentBuilder.chain)] \in {"input", "addRule"})
     => /\ fluentBuilder.this.depsStatus = fluentBuilder.from[1].depsStatus
        /\ fluentBuilder.this.deps = fluentBuilder.from[1].deps
  /\ DepsStillOwed
     => /\ fluentBuilder.this.depsStatus = "required"
        /\ fluentBuilder.call # None
           => fluentBuilder.call[1].threw
                = "Deps must be passed or not required at validation time"

====
